---- MODULE Spec2Model ----
(***************************************************************************)
(* Temporal HTN formalism (temporal_htn/htn.py) and its lowering to the    *)
(* chronicles solver builder (temporal_htn/lcp_converter.py).              *)
(*                                                                         *)
(* A ChroniclesProblem is the record of its attributes ("self"); every     *)
(* method of the class is an operator from self (and the arguments) to the *)
(* self the call leaves behind.  The field `raised` of that record is the  *)
(* exception the call ended with ("none" when it returned), the field      *)
(* `calls` is the list of calls the solver builder (self.problem) has      *)
(* received.                                                               *)
(***************************************************************************)
EXTENDS Integers, Sequences, FiniteSets, TLC

VARIABLES
    context_created,      \* ChroniclesProblem.context_created
    symbol_table_created, \* ChroniclesProblem.symbol_table_created
    actions,              \* ChroniclesProblem.actions
    constants,            \* ChroniclesProblem.constants
    initial_effects,      \* ChroniclesProblem.initial_effects
    methods,              \* ChroniclesProblem.methods
    state_variables,      \* ChroniclesProblem.state_variables
    symbols,              \* ChroniclesProblem.symbols
    tasks,                \* ChroniclesProblem.tasks
    types,                \* ChroniclesProblem.types
    variables,            \* ChroniclesProblem.variables
    calls,                \* the calls received by self.problem, in order
    raised,               \* the exception raised by the last call, or "none"
    pc,                   \* position inside from_htn ("api": no from_htn running)
    todo,                 \* elements the current loop of from_htn has not visited
    htn_problem,          \* the HtnProblem given to from_htn
    counter,              \* HtnTemporalIntervalFactory.counter
    minted,               \* the intervals the factory has returned, in order
    domain,               \* an HtnDomain under construction
    inputs,               \* the arguments of a call on the entities
    result,               \* what that call returned or raised
    frames                \* the frames of the threads inside the factory

pipeline_vars == <<context_created, symbol_table_created, actions, constants,
                   initial_effects, methods, state_variables, symbols, tasks, types,
                   variables, calls, raised, pc, todo, htn_problem>>

entity_vars == <<counter, minted, domain, inputs, result, frames>>

vars == <<pipeline_vars, entity_vars>>

----------------------------------------------------------------------------
(* Bounds of the model.                                                    *)

\* The longest series of calls to the interval factory.
MaxIntervals == 4

\* The longest delay lowered, in steps of epsilon.
MaxDelaySteps == 60

MaxTypeCalls == 7

\* The longest list of builder calls the free use of the pipeline explores.
MaxCalls == 5

----------------------------------------------------------------------------
(* Generic helpers.                                                        *)

Range(s) == {s[i] : i \in 1..Len(s)}

None == <<>>

Some(x) == <<x>>

RECURSIVE Flatten(_)
Flatten(ss) == IF ss = <<>> THEN <<>> ELSE Head(ss) \o Flatten(Tail(ss))

\* Every ordering of a finite set: the orders in which Python may iterate it.
Orderings(S) ==
    {s \in [1..Cardinality(S) -> S] : \A x \in S : \E i \in 1..Cardinality(S) : s[i] = x}

----------------------------------------------------------------------------
(* htn.py: types.  An HtnType is the chain of names from the type up to    *)
(* its root; the parent of a root is None.                                 *)

HtnType(name, parent) == <<name>> \o parent

HtnType_name(t) == Head(t)

HtnType_parent(t) == Tail(t)

RECURSIVE HtnType_eq(_, _)
HtnType_eq(a, b) ==
    IF a = None \/ b = None THEN a = None /\ b = None
    ELSE IF HtnType_name(a) # HtnType_name(b) THEN FALSE
    ELSE HtnType_eq(HtnType_parent(a), HtnType_parent(b))

\* The dataclass hash of an HtnType: hash((name, parent)).
HtnType_hash(t) == t

HTN_TIMEPOINT == HtnType("__timepoint__", None)

HTN_BOOLEAN == HtnType("__boolean__", None)

HTN_INTEGER == HtnType("__integer__", None)

----------------------------------------------------------------------------
(* Python floats.  A delay is a float (IEEE 754 binary64).  A float is the  *)
(* record [neg, m, e] of value (-1)^neg * m * 2^e, where the mantissa m is  *)
(* a natural number written as its bits, most significant first, without   *)
(* leading or trailing zeros (zero is the empty string of bits), so that    *)
(* equal floats are equal records.  Every operation computes the exact     *)
(* result and rounds it to FloatMantissaBits bits, ties to even.            *)

FloatMantissaBits == 53

Zeros(k) == [i \in 1..k |-> 0]

RECURSIVE BitsOfNat(_)
BitsOfNat(n) == IF n = 0 THEN <<>> ELSE Append(BitsOfNat(n \div 2), n % 2)

RECURSIVE NatOfBits(_)
NatOfBits(b) ==
    IF b = <<>> THEN 0 ELSE 2 * NatOfBits(SubSeq(b, 1, Len(b) - 1)) + b[Len(b)]

\* b without its leading zeros.
Strip(b) ==
    LET ones == {i \in 1..Len(b) : b[i] = 1}
    IN  IF ones = {} THEN <<>>
        ELSE SubSeq(b, CHOOSE i \in ones : \A j \in ones : i <= j, Len(b))

BitsLess(a, b) ==
    \/ Len(a) < Len(b)
    \/ /\ Len(a) = Len(b)
       /\ \E i \in 1..Len(a) : a[i] < b[i] /\ \A j \in 1..(i - 1) : a[j] = b[j]

\* Sums and differences are computed LimbBits bits at a time.
LimbBits == 14

\* The n limbs of the bits b, most significant first.
Limbs(b, n) ==
    LET padded == Zeros(n * LimbBits - Len(b)) \o b
    IN  [k \in 1..n |-> NatOfBits(SubSeq(padded, (k - 1) * LimbBits + 1, k * LimbBits))]

LimbToBits(limb) == [i \in 1..LimbBits |-> (limb \div 2^(LimbBits - i)) % 2]

BitsOfLimbs(limbs) ==
    [i \in 1..(Len(limbs) * LimbBits) |->
        LimbToBits(limbs[((i - 1) \div LimbBits) + 1])[((i - 1) % LimbBits) + 1]]

BitsAdd(a, b) ==
    LET n == ((IF Len(a) > Len(b) THEN Len(a) ELSE Len(b)) \div LimbBits) + 1
        la == Limbs(a, n)
        lb == Limbs(b, n)
        carry[k \in 0..n] ==
            IF k = 0 THEN 0 ELSE (la[n + 1 - k] + lb[n + 1 - k] + carry[k - 1]) \div 2^LimbBits
    IN  Strip(BitsOfLimbs([i \in 1..n |-> (la[i] + lb[i] + carry[n - i]) % 2^LimbBits]))

\* a - b for a >= b.
BitsSub(a, b) ==
    LET n == (Len(a) \div LimbBits) + 1
        la == Limbs(a, n)
        lb == Limbs(b, n)
        borrow[k \in 0..n] ==
            IF k = 0 THEN 0
            ELSE IF la[n + 1 - k] - lb[n + 1 - k] - borrow[k - 1] < 0 THEN 1 ELSE 0
    IN  Strip(BitsOfLimbs([i \in 1..n |->
                              (la[i] - lb[i] - borrow[n - i] + 2^LimbBits) % 2^LimbBits]))

\* a * n for a natural number n given by its bits.
RECURSIVE BitsMul(_, _)
BitsMul(a, n) ==
    IF n = <<>> THEN <<>>
    ELSE BitsAdd(BitsMul(a, SubSeq(n, 1, Len(n) - 1)) \o <<0>>,
                 IF n[Len(n)] = 1 THEN a ELSE <<>>)

FloatZero == [neg |-> FALSE, m |-> <<>>, e |-> 0]

\* The record of (-1)^neg * m * 2^e for bits m without leading zeros.
FloatCanonical(neg, m, e) ==
    LET ones == {i \in 1..Len(m) : m[i] = 1}
        last == CHOOSE i \in ones : \A j \in ones : j <= i
    IN  IF ones = {} THEN FloatZero
        ELSE [neg |-> neg, m |-> SubSeq(m, 1, last), e |-> e + (Len(m) - last)]

\* The float nearest to (-1)^neg * bits * 2^e, ties to even.
FloatRound(neg, bits, e) ==
    LET b == Strip(bits)
        keep == SubSeq(b, 1, FloatMantissaBits)
        rest == SubSeq(b, FloatMantissaBits + 1, Len(b))
        up == /\ rest[1] = 1
              /\ \/ keep[FloatMantissaBits] = 1
                 \/ \E i \in 2..Len(rest) : rest[i] = 1
    IN  IF Len(b) <= FloatMantissaBits THEN FloatCanonical(neg, b, e)
        ELSE FloatCanonical(neg, IF up THEN BitsAdd(keep, <<1>>) ELSE keep, e + Len(rest))

\* float(n) for an integer n.
FloatOfInt(n) == FloatRound(n < 0, BitsOfNat(IF n < 0 THEN 0 - n ELSE n), 0)

\* n / d for two integers, d > 0: the quotient to FloatDivBits binary places
\* and one more bit that tells whether anything is left.
FloatDivBits == 64

FloatDiv(n, d) ==
    LET num == BitsOfNat(IF n < 0 THEN 0 - n ELSE n) \o Zeros(FloatDivBits)
        k == (Len(num) \div LimbBits) + 1
        limbs == Limbs(num, k)
        rem[i \in 0..k] == IF i = 0 THEN 0 ELSE (rem[i - 1] * 2^LimbBits + limbs[i]) % d
        quot == [i \in 1..k |-> (rem[i - 1] * 2^LimbBits + limbs[i]) \div d]
    IN  FloatRound(n < 0, BitsOfLimbs(quot) \o <<IF rem[k] = 0 THEN 0 ELSE 1>>,
                   0 - FloatDivBits - 1)

FloatNeg(x) == IF x.m = <<>> THEN x ELSE [x EXCEPT !.neg = ~x.neg]

FloatAdd(x, y) ==
    LET e == IF x.e < y.e THEN x.e ELSE y.e
        mx == x.m \o Zeros(x.e - e)
        my == y.m \o Zeros(y.e - e)
    IN  IF x.m = <<>> THEN y
        ELSE IF y.m = <<>> THEN x
        ELSE IF x.neg = y.neg THEN FloatRound(x.neg, BitsAdd(mx, my), e)
        ELSE IF mx = my THEN FloatZero
        ELSE IF BitsLess(mx, my) THEN FloatRound(y.neg, BitsSub(my, mx), e)
        ELSE FloatRound(x.neg, BitsSub(mx, my), e)

\* x * n for a float x and a positive integer n.
FloatMul(x, n) ==
    IF x.m = <<>> THEN FloatZero ELSE FloatRound(x.neg, BitsMul(x.m, BitsOfNat(n)), x.e)

\* int(x): x without its fraction.
FloatTrunc(x) ==
    LET whole == IF x.e >= 0 THEN NatOfBits(x.m \o Zeros(x.e))
                 ELSE IF Len(x.m) + x.e <= 0 THEN 0
                 ELSE NatOfBits(SubSeq(x.m, 1, Len(x.m) + x.e))
    IN  IF x.neg THEN 0 - whole ELSE whole

----------------------------------------------------------------------------
(* htn.py: typed objects.                                                  *)

HTN_TIME_SCALE == 10

HTN_EPSILON == FloatDiv(1, HTN_TIME_SCALE)

TimepointClasses == {"HtnTimepoint", "HtnVariableTimepoint", "HtnConstantTimepoint"}

HtnVariable(value, tpe) == [cls |-> "HtnVariable", value |-> value, tpe |-> tpe, delay |-> FloatZero]

HtnConstant(value, tpe) == [cls |-> "HtnConstant", value |-> value, tpe |-> tpe, delay |-> FloatZero]

HtnTimepoint(value) == [cls |-> "HtnTimepoint", value |-> value, tpe |-> HTN_TIMEPOINT, delay |-> FloatZero]

is_timepoint(o) == o.cls \in TimepointClasses

HtnTypedObject_eq(a, b) ==
    /\ b.value = a.value
    /\ HtnType_eq(b.tpe, a.tpe)

HtnTimepoint_eq(a, b) ==
    /\ HtnTypedObject_eq(a, b)
    /\ is_timepoint(b)
    /\ b.delay = a.delay

\* a == b for two typed objects: the __eq__ of a's class decides.
TypedObject_eq(a, b) ==
    IF is_timepoint(a) THEN HtnTimepoint_eq(a, b) ELSE HtnTypedObject_eq(a, b)

\* hash((value, tpe)), and hash((value, tpe, delay)) for a timepoint.
TypedObject_hash(o) ==
    IF is_timepoint(o) THEN <<o.value, HtnType_hash(o.tpe), o.delay>>
    ELSE <<o.value, HtnType_hash(o.tpe), FloatZero>>

HTN_TRUE == HtnConstant("True", HTN_BOOLEAN)

HTN_FALSE == HtnConstant("False", HTN_BOOLEAN)

\* other is float(other).
HtnTimepoint_add(t, other) == [t EXCEPT !.delay = FloatAdd(t.delay, other)]

HtnTimepoint_sub(t, other) == HtnTimepoint_add(t, FloatNeg(other))

HtnTemporalInterval(start, end) == [start |-> start, end |-> end]

\* HtnTemporalInterval.__add__ and __sub__ shift both ends.
HtnTemporalInterval_add(i, other) ==
    HtnTemporalInterval(HtnTimepoint_add(i.start, other), HtnTimepoint_add(i.end, other))

HtnTemporalInterval_sub(i, other) ==
    HtnTemporalInterval(HtnTimepoint_sub(i.start, other), HtnTimepoint_sub(i.end, other))

HtnTemporalInterval_eq(a, b) ==
    /\ TypedObject_eq(b.start, a.start)
    /\ TypedObject_eq(b.end, a.end)

HtnTemporalInterval_hash(i) == <<TypedObject_hash(i.start), TypedObject_hash(i.end)>>

----------------------------------------------------------------------------
(* htn.py: symbols and labels.                                             *)

HtnSymbol(cls, name) == [cls |-> cls, name |-> name]

\* Every subclass of HtnSymbol inherits this __eq__ and the hash of (name,).
HtnSymbol_eq(a, b) == a.name = b.name

HtnSymbol_hash(s) == s.name

HtnLabel(value) == [value |-> value]

----------------------------------------------------------------------------
(* htn.py: parametric symbols, state variables, conditions and effects.    *)

\* Two tuples of typed objects compare equal element by element.
Params_eq(s, t) ==
    /\ Len(s) = Len(t)
    /\ \A i \in 1..Len(s) : TypedObject_eq(s[i], t[i])

Params_hash(s) == [i \in 1..Len(s) |-> TypedObject_hash(s[i])]

\* HtnParametricSymbol.__eq__: every parameter of a has an equal one in b.
HtnParametricSymbol_eq(a, b) ==
    IF ~HtnSymbol_eq(a.symbol, b.symbol) THEN FALSE
    ELSE IF Len(a.params) # Len(b.params) THEN FALSE
    ELSE \A i \in 1..Len(a.params) :
            \E j \in 1..Len(b.params) : TypedObject_eq(a.params[i], b.params[j])

HtnStateVariable(symbol, params, tpe) == [symbol |-> symbol, params |-> params, tpe |-> tpe]

\* HtnStateVariable defines no __eq__: the dataclass compares the field tuples.
HtnStateVariable_eq(a, b) ==
    /\ HtnSymbol_eq(a.symbol, b.symbol)
    /\ Params_eq(a.params, b.params)
    /\ HtnType_eq(a.tpe, b.tpe)

HtnStateVariable_hash(sv) ==
    <<HtnSymbol_hash(sv.symbol), Params_hash(sv.params), HtnType_hash(sv.tpe)>>

\* HtnCondition and HtnEffect share their fields: sv, value, interval.
HtnEffect(sv, value, interval) == [sv |-> sv, value |-> value, interval |-> interval]

HtnCondition(sv, value, interval) == [sv |-> sv, value |-> value, interval |-> interval]

HtnEffect_eq(a, b) ==
    /\ HtnStateVariable_eq(a.sv, b.sv)
    /\ TypedObject_eq(a.value, b.value)
    /\ HtnTemporalInterval_eq(a.interval, b.interval)

HtnEffect_hash(e) ==
    <<HtnStateVariable_hash(e.sv), TypedObject_hash(e.value), HtnTemporalInterval_hash(e.interval)>>

\* Tuples of conditions or of effects.
Effects_eq(s, t) ==
    /\ Len(s) = Len(t)
    /\ \A i \in 1..Len(s) : HtnEffect_eq(s[i], t[i])

Effects_hash(s) == [i \in 1..Len(s) |-> HtnEffect_hash(s[i])]

\* Variant of dirac whose first effect is not shifted; C13 fails under it.
HtnEffectFactory_dirac_unshifted(sv, value, interval) ==
    IF ~HtnType_eq(sv.tpe, HTN_BOOLEAN) THEN [raised |-> "TypeError", value |-> None]
    ELSE LET opposition_value == IF TypedObject_eq(value, HTN_FALSE) THEN HTN_TRUE
                                 ELSE HTN_FALSE
         IN  [raised |-> "none",
              value |-> Some(<<HtnEffect(sv, value, interval),
                               HtnEffect(sv, opposition_value, interval)>>)]

\* HtnEffectFactory.dirac; the result carries raised = "TypeError" and no effect
\* when sv is not a predicate.
HtnEffectFactory_dirac(sv, value, interval) ==
    IF ~HtnType_eq(sv.tpe, HTN_BOOLEAN) THEN [raised |-> "TypeError", value |-> None]
    ELSE LET opposition_value == IF TypedObject_eq(value, HTN_FALSE) THEN HTN_TRUE
                                 ELSE HTN_FALSE
         IN  [raised |-> "none",
              value |-> Some(<<HtnEffect(sv, value,
                                         HtnTemporalInterval_sub(interval, HTN_EPSILON)),
                               HtnEffect(sv, opposition_value, interval)>>)]

----------------------------------------------------------------------------
(* htn.py: constraints.                                                    *)

HtnConstraint(left, right, relation) ==
    [cls |-> "HtnConstraint", left |-> left, right |-> right, relation |-> relation,
     left_label |-> None, right_label |-> None]

HtnTemporalConstraint(left, right, relation, left_label, right_label) ==
    [cls |-> "HtnTemporalConstraint", left |-> left, right |-> right,
     relation |-> relation, left_label |-> left_label, right_label |-> right_label]

HtnConstraint_eq(a, b) ==
    /\ a.cls = b.cls
    /\ TypedObject_eq(a.left, b.left)
    /\ TypedObject_eq(a.right, b.right)
    /\ a.relation = b.relation
    /\ a.left_label = b.left_label
    /\ a.right_label = b.right_label

HtnConstraint_hash(c) ==
    <<TypedObject_hash(c.left), TypedObject_hash(c.right), c.relation, c.left_label,
      c.right_label>>

Constraints_eq(s, t) ==
    /\ Len(s) = Len(t)
    /\ \A i \in 1..Len(s) : HtnConstraint_eq(s[i], t[i])

Constraints_hash(s) == [i \in 1..Len(s) |-> HtnConstraint_hash(s[i])]

\* Variant of _make that drops the labels of a non-temporal constraint instead
\* of refusing them; C14 fails under it.
HtnConstraintFactory_make_lenient(left, right, relation, lab_left, lab_right) ==
    IF is_timepoint(left)
    THEN IF ~is_timepoint(right)
         THEN [raised |-> "ConstraintArgumentError", value |-> None]
         ELSE [raised |-> "none",
               value |-> Some(HtnTemporalConstraint(left, right, relation, lab_left, lab_right))]
    ELSE IF is_timepoint(right)
    THEN [raised |-> "ConstraintArgumentError", value |-> None]
    ELSE [raised |-> "none", value |-> Some(HtnConstraint(left, right, relation))]

\* HtnConstraintFactory._make; the result carries raised = "ConstraintArgumentError"
\* and no constraint when the arguments are refused.
HtnConstraintFactory_make(left, right, relation, lab_left, lab_right) ==
    IF is_timepoint(left)
    THEN IF ~is_timepoint(right)
         THEN [raised |-> "ConstraintArgumentError", value |-> None]
         ELSE [raised |-> "none",
               value |-> Some(HtnTemporalConstraint(left, right, relation, lab_left, lab_right))]
    ELSE IF is_timepoint(right)
    THEN [raised |-> "ConstraintArgumentError", value |-> None]
    ELSE IF lab_left # None
    THEN [raised |-> "ConstraintArgumentError", value |-> None]
    ELSE IF lab_right # None
    THEN [raised |-> "ConstraintArgumentError", value |-> None]
    ELSE [raised |-> "none", value |-> Some(HtnConstraint(left, right, relation))]

HtnConstraintFactory_eq(left, right, lab_left, lab_right) ==
    HtnConstraintFactory_make(left, right, "==", lab_left, lab_right)

HtnConstraintFactory_neq(left, right, lab_left, lab_right) ==
    HtnConstraintFactory_make(left, right, "!=", lab_left, lab_right)

HtnConstraintFactory_gt(left, right, lab_left, lab_right) ==
    HtnConstraintFactory_make(left, right, ">", lab_left, lab_right)

HtnConstraintFactory_ge(left, right, lab_left, lab_right) ==
    HtnConstraintFactory_make(left, right, ">=", lab_left, lab_right)

HtnConstraintFactory_lt(left, right, lab_left, lab_right) ==
    HtnConstraintFactory_make(left, right, "<", lab_left, lab_right)

HtnConstraintFactory_le(left, right, lab_left, lab_right) ==
    HtnConstraintFactory_make(left, right, "<=", lab_left, lab_right)

\* Variant of min_duration that builds the constraint of duration (an
\* equality); C11 fails under it.
HtnConstraintFactory_min_duration_exact(task_or_interval, duration, label) ==
    HtnConstraintFactory_make(task_or_interval.end,
                              HtnTimepoint_add(task_or_interval.start, duration),
                              "==", label, label)

HtnConstraintFactory_min_duration(task_or_interval, duration, label) ==
    HtnConstraintFactory_ge(task_or_interval.end,
                            HtnTimepoint_add(task_or_interval.start, duration),
                            label, label)

HtnConstraintFactory_min_duration_eps(task_or_interval, label) ==
    HtnConstraintFactory_min_duration(task_or_interval, HTN_EPSILON, label)

----------------------------------------------------------------------------
(* htn.py: tasks, task networks and methods.                               *)

HtnPrimitiveTask(symbol, params, interval, constraints, conditions, effects) ==
    [cls |-> "HtnPrimitiveTask", symbol |-> symbol, params |-> params,
     interval |-> interval, constraints |-> constraints, conditions |-> conditions,
     effects |-> effects]

HtnCompoundTask(symbol, params, interval) ==
    [cls |-> "HtnCompoundTask", symbol |-> symbol, params |-> params,
     interval |-> interval, constraints |-> <<>>, conditions |-> <<>>, effects |-> <<>>]

HtnTask_start(task) == task.interval.start

HtnTask_end(task) == task.interval.end

HtnTask_eq(a, b) ==
    IF ~HtnParametricSymbol_eq(a, b) THEN FALSE
    ELSE IF ~HtnSymbol_eq(a.symbol, b.symbol) THEN FALSE
    ELSE HtnTemporalInterval_eq(a.interval, b.interval)

HtnPrimitiveTask_eq(a, b) ==
    IF ~HtnTask_eq(a, b) THEN FALSE
    ELSE IF b.cls # "HtnPrimitiveTask" THEN FALSE
    ELSE IF ~Constraints_eq(a.constraints, b.constraints) THEN FALSE
    ELSE IF ~Effects_eq(a.conditions, b.conditions) THEN FALSE
    ELSE Effects_eq(a.effects, b.effects)

HtnCompoundTask_eq(a, b) ==
    IF ~HtnTask_eq(a, b) THEN FALSE
    ELSE b.cls = "HtnCompoundTask"

\* a == b for two tasks: the __eq__ of a's class decides.
Task_eq(a, b) ==
    IF a.cls = "HtnPrimitiveTask" THEN HtnPrimitiveTask_eq(a, b) ELSE HtnCompoundTask_eq(a, b)

\* The dataclass hash: the fields in order, the parameters in their order.
Task_hash(t) ==
    IF t.cls = "HtnPrimitiveTask"
    THEN <<HtnSymbol_hash(t.symbol), Params_hash(t.params),
           HtnTemporalInterval_hash(t.interval), Constraints_hash(t.constraints),
           Effects_hash(t.conditions), Effects_hash(t.effects)>>
    ELSE <<HtnSymbol_hash(t.symbol), Params_hash(t.params),
           HtnTemporalInterval_hash(t.interval)>>

\* HtnPrimitiveTask.state_variables, in the order of conditions + effects.
HtnPrimitiveTask_state_variables(task) ==
    [i \in 1..Len(task.conditions \o task.effects) |-> (task.conditions \o task.effects)[i].sv]

\* Variant of the loop of all_params that appends every parameter; C30 fails
\* under it.
AppendEvery(all_params, sv_params) == all_params \o sv_params

RECURSIVE AppendNew(_, _)
AppendNew(all_params, sv_params) ==
    IF sv_params = <<>> THEN all_params
    ELSE IF \E i \in 1..Len(all_params) : TypedObject_eq(Head(sv_params), all_params[i])
         THEN AppendNew(all_params, Tail(sv_params))
         ELSE AppendNew(Append(all_params, Head(sv_params)), Tail(sv_params))

\* HtnPrimitiveTask.all_params for a primitive task, HtnParametricSymbol.all_params
\* (the params) for a compound task.
Task_all_params(task) ==
    IF task.cls = "HtnPrimitiveTask"
    THEN AppendNew(task.params,
                   Flatten([i \in 1..Len(HtnPrimitiveTask_state_variables(task)) |->
                               HtnPrimitiveTask_state_variables(task)[i].params]))
    ELSE task.params

HtnLabelMappingPair(label, task) == [label |-> label, task |-> task]

HtnLabelMappingPair_eq(a, b) == a.label = b.label /\ Task_eq(a.task, b.task)

HtnTaskNetwork(label_mapping, constraints) ==
    [label_mapping |-> label_mapping, constraints |-> constraints]

HtnTaskNetwork_tasks(tn) == [i \in 1..Len(tn.label_mapping) |-> tn.label_mapping[i].task]

HtnTaskNetwork_eq(a, b) ==
    /\ Len(a.label_mapping) = Len(b.label_mapping)
    /\ \A i \in 1..Len(a.label_mapping) :
          HtnLabelMappingPair_eq(a.label_mapping[i], b.label_mapping[i])
    /\ Constraints_eq(a.constraints, b.constraints)

HtnTaskNetwork_hash(tn) ==
    <<[i \in 1..Len(tn.label_mapping) |->
          <<tn.label_mapping[i].label, Task_hash(tn.label_mapping[i].task)>>],
      Constraints_hash(tn.constraints)>>

HtnMethod(task, task_network, constraints, conditions, symbol) ==
    [task |-> task, task_network |-> task_network, constraints |-> constraints,
     conditions |-> conditions, symbol |-> symbol]

HtnMethod_state_variables(method) == {method.conditions[i].sv : i \in 1..Len(method.conditions)}

\* HtnMethod.all_params builds a Python set: the distinct parameters (one per
\* hash-and-equality class) of the task, the subtasks and the conditions.
HtnMethod_all_params(method) ==
    LET pool == Range(Task_all_params(method.task))
                \cup UNION {Range(Task_all_params(t)) : t \in Range(HtnTaskNetwork_tasks(method.task_network))}
                \cup UNION {Range(sv.params) : sv \in HtnMethod_state_variables(method)}
    IN  {p \in pool : p = CHOOSE q \in pool : TypedObject_hash(q) = TypedObject_hash(p)}

HtnMethod_interval(method) == method.task.interval

HtnMethod_eq(a, b) ==
    /\ HtnCompoundTask_eq(a.task, b.task)
    /\ HtnTaskNetwork_eq(a.task_network, b.task_network)
    /\ Constraints_eq(a.constraints, b.constraints)
    /\ Effects_eq(a.conditions, b.conditions)
    /\ HtnSymbol_eq(a.symbol, b.symbol)

HtnMethod_hash(m) ==
    <<Task_hash(m.task), HtnTaskNetwork_hash(m.task_network),
      Constraints_hash(m.constraints), Effects_hash(m.conditions),
      HtnSymbol_hash(m.symbol)>>

\* x in S for a Python set S: an element with x's hash that compares equal to x.
Types_contains(S, x) == \E y \in S : HtnType_hash(y) = HtnType_hash(x) /\ HtnType_eq(y, x)

Symbols_contains(S, x) ==
    \E y \in S : HtnSymbol_hash(y) = HtnSymbol_hash(x) /\ HtnSymbol_eq(y, x)

TypedObjects_contains(S, x) ==
    \E y \in S : TypedObject_hash(y) = TypedObject_hash(x) /\ TypedObject_eq(y, x)

StateVariables_contains(S, x) ==
    \E y \in S : HtnStateVariable_hash(y) = HtnStateVariable_hash(x) /\ HtnStateVariable_eq(y, x)

Tasks_contains(S, x) == \E y \in S : Task_hash(y) = Task_hash(x) /\ Task_eq(y, x)

Methods_contains(S, x) == \E y \in S : HtnMethod_hash(y) = HtnMethod_hash(x) /\ HtnMethod_eq(y, x)

Effects_contains(S, x) == \E y \in S : HtnEffect_hash(y) = HtnEffect_hash(x) /\ HtnEffect_eq(y, x)

\* The set self.state_variables of a primitive task: equal state variables of
\* the conditions and effects are held once.
RECURSIVE StateVariables_update(_, _)
StateVariables_update(S, xs) ==
    IF xs = <<>> THEN S
    ELSE StateVariables_update(IF StateVariables_contains(S, Head(xs)) THEN S
                               ELSE S \cup {Head(xs)}, Tail(xs))

\* HtnPrimitiveTask.all_params, where svs is the set self.state_variables in
\* the order Python iterates it.
HtnPrimitiveTask_all_params(task, svs) ==
    AppendNew(task.params, Flatten([i \in 1..Len(svs) |-> svs[i].params]))

----------------------------------------------------------------------------
(* lcp_converter.py: the lowering of values to the strings of the solver.  *)

\* Variant of get_timepoint that leaves the label out; C10 fails under it.
get_timepoint_unlabelled(htn_timepoint, htn_label) ==
    htn_timepoint.value \o " + "
        \o ToString(FloatTrunc(FloatMul(htn_timepoint.delay, HTN_TIME_SCALE)))
        \o " - " \o HtnType_name(htn_timepoint.tpe)

\* Variant of get_timepoint that does not scale the delay; C20 fails under it.
get_timepoint_unscaled(htn_timepoint, htn_label) ==
    LET value == IF htn_label # None
                 THEN htn_timepoint.value \o htn_label[1].value
                 ELSE htn_timepoint.value
    IN  value \o " + " \o ToString(FloatTrunc(htn_timepoint.delay))
              \o " - " \o HtnType_name(htn_timepoint.tpe)

get_timepoint(htn_timepoint, htn_label) ==
    LET value == IF htn_label # None
                 THEN htn_timepoint.value \o htn_label[1].value
                 ELSE htn_timepoint.value
    IN  value \o " + "
              \o ToString(FloatTrunc(FloatMul(htn_timepoint.delay, HTN_TIME_SCALE)))
              \o " - " \o HtnType_name(htn_timepoint.tpe)

get_typed_object(htn_obj) ==
    IF is_timepoint(htn_obj) THEN get_timepoint(htn_obj, None)
    ELSE htn_obj.value \o " - " \o HtnType_name(htn_obj.tpe)

get_interval(htn_interval, htn_label) ==
    <<get_timepoint(htn_interval.start, htn_label), get_timepoint(htn_interval.end, htn_label)>>

get_temporal_constraint(htn_constraint) ==
    <<get_timepoint(htn_constraint.left, htn_constraint.left_label),
      htn_constraint.relation,
      get_timepoint(htn_constraint.right, htn_constraint.right_label)>>

get_constraint(htn_constraint) ==
    IF htn_constraint.cls = "HtnTemporalConstraint"
    THEN get_temporal_constraint(htn_constraint)
    ELSE <<get_typed_object(htn_constraint.left), htn_constraint.relation,
           get_typed_object(htn_constraint.right)>>

----------------------------------------------------------------------------
(* lcp_converter.py: ChroniclesProblem.                                    *)

\* An argument of a builder call is a list of lists of strings: a string s is
\* <<<<s>>>>, a list of strings l is <<l>>, None is <<>>.
Str(s) == <<<<s>>>>

StrList(l) == <<l>>

Call(self, op, args) == [self EXCEPT !.calls = Append(@, [op |-> op, args |-> args])]

Raise(self, error) == [self EXCEPT !.raised = error]

\* The result of a list comprehension whose elements may raise: the first error.
FirstRaised(rs) ==
    IF \E i \in 1..Len(rs) : rs[i].raised # "none"
    THEN rs[CHOOSE i \in 1..Len(rs) :
               rs[i].raised # "none" /\ \A j \in 1..(i - 1) : rs[j].raised = "none"].raised
    ELSE "none"

Values(rs) == [i \in 1..Len(rs) |-> rs[i].value]

ChroniclesProblem_init ==
    [context_created |-> FALSE, symbol_table_created |-> FALSE, actions |-> {},
     constants |-> {}, initial_effects |-> {}, methods |-> {}, state_variables |-> {},
     symbols |-> {}, tasks |-> {}, types |-> {}, variables |-> {}, calls |-> <<>>,
     raised |-> "none"]

\* Variant of check_context that lets every call through; C2 fails under it.
check_context_open(self) == "none"

check_context(self) == IF ~self.context_created THEN "UncreatedContextError" ELSE "none"

check_symbol_table(self) ==
    IF ~self.symbol_table_created THEN "UncreatedSymbolTableError" ELSE "none"

\* Variant of check_symbol that looks the symbol up before looking at the symbol
\* table; C4 fails under it.
check_symbol_lookup_first(self, symbol) ==
    IF ~Symbols_contains(self.symbols, symbol)
    THEN "UnregisteredSymbolError"
    ELSE check_symbol_table(self)

check_symbol(self, symbol) ==
    IF check_symbol_table(self) # "none" THEN check_symbol_table(self)
    ELSE IF ~Symbols_contains(self.symbols, symbol)
    THEN "UnregisteredSymbolError"
    ELSE "none"

get_signature(self, symbol, all_params) ==
    IF check_symbol(self, symbol) # "none"
    THEN [raised |-> check_symbol(self, symbol), value |-> <<>>]
    ELSE IF check_symbol_table(self) # "none"
    THEN [raised |-> check_symbol_table(self), value |-> <<>>]
    ELSE [raised |-> "none",
          value |-> <<symbol.name>>
                    \o [i \in 1..Len(all_params) |-> get_typed_object(all_params[i])]]

get_signature_temporal(self, symbol, all_params, interval, htn_label) ==
    IF get_signature(self, symbol, all_params).raised # "none"
    THEN get_signature(self, symbol, all_params)
    ELSE [raised |-> "none",
          value |-> get_signature(self, symbol, all_params).value
                    \o get_interval(interval, htn_label)]

get_effect(self, htn_effect) ==
    IF get_signature(self, htn_effect.sv.symbol, htn_effect.sv.params).raised # "none"
    THEN get_signature(self, htn_effect.sv.symbol, htn_effect.sv.params)
    ELSE [raised |-> "none",
          value |-> get_signature(self, htn_effect.sv.symbol, htn_effect.sv.params).value
                    \o <<htn_effect.value.value>>
                    \o get_interval(htn_effect.interval, None)]

get_condition(self, htn_condition) == get_effect(self, htn_condition)

\* Variant of add_type without the membership test; C1 fails under it.
RECURSIVE add_type_unguarded(_, _)
add_type_unguarded(self, htn_type) ==
    LET s1 == [self EXCEPT !.types = @ \cup {htn_type}]
        parent == IF HtnType_parent(htn_type) # None
                  THEN Str(HtnType_name(HtnType_parent(htn_type)))
                  ELSE None
        s2 == Call(s1, "add_type", <<Str(HtnType_name(htn_type)), parent>>)
    IN  IF HtnType_parent(htn_type) # None
        THEN add_type_unguarded(s2, HtnType_parent(htn_type))
        ELSE s2

\* Variant of add_type that does not go up to the parent; C26 fails under it.
add_type_alone(self, htn_type) ==
    IF Types_contains(self.types, htn_type) THEN self
    ELSE LET s1 == [self EXCEPT !.types = @ \cup {htn_type}]
             parent == IF HtnType_parent(htn_type) # None
                       THEN Str(HtnType_name(HtnType_parent(htn_type)))
                       ELSE None
         IN  Call(s1, "add_type", <<Str(HtnType_name(htn_type)), parent>>)

RECURSIVE add_type(_, _)
add_type(self, htn_type) ==
    IF Types_contains(self.types, htn_type) THEN self
    ELSE LET s1 == [self EXCEPT !.types = @ \cup {htn_type}]
             parent == IF HtnType_parent(htn_type) # None
                       THEN Str(HtnType_name(HtnType_parent(htn_type)))
                       ELSE None
             s2 == Call(s1, "add_type", <<Str(HtnType_name(htn_type)), parent>>)
         IN  IF HtnType_parent(htn_type) # None
             THEN add_type(s2, HtnType_parent(htn_type))
             ELSE s2

add_symbol(self, symbol, symbol_type, htn_type) ==
    IF Symbols_contains(self.symbols, symbol) THEN self
    ELSE LET s1 == [self EXCEPT !.symbols = @ \cup {symbol}]
         IN  IF symbol_type = "ACTION"
             THEN Call(s1, "add_action_symbol", <<Str(symbol.name)>>)
             ELSE IF symbol_type = "CONSTANT"
             THEN IF htn_type = None
                  THEN Raise(s1, "ValueError")
                  ELSE Call(s1, "add_constant_symbol",
                            <<Str(symbol.name), Str(HtnType_name(htn_type))>>)
             ELSE IF symbol_type = "METHOD"
             THEN Call(s1, "add_method_symbol", <<Str(symbol.name)>>)
             ELSE IF symbol_type = "PREDICATE"
             THEN Call(s1, "add_predicate_symbol", <<Str(symbol.name)>>)
             ELSE IF symbol_type = "FUNCTION"
             THEN Call(s1, "add_function_symbol", <<Str(symbol.name)>>)
             ELSE IF symbol_type = "TASK"
             THEN Call(s1, "add_task_symbol", <<Str(symbol.name)>>)
             ELSE Raise(s1, "RuntimeError")

add_constant(self, htn_constant) ==
    IF TypedObjects_contains(self.constants, htn_constant) THEN self
    ELSE LET s1 == [self EXCEPT !.constants = @ \cup {htn_constant}]
         IN  add_symbol(add_type(s1, htn_constant.tpe),
                        HtnSymbol("HtnSymbol", htn_constant.value),
                        "CONSTANT", htn_constant.tpe)

add_variable(self, htn_variable) ==
    IF TypedObjects_contains(self.variables, htn_variable) THEN self
    ELSE add_type([self EXCEPT !.variables = @ \cup {htn_variable}], htn_variable.tpe)

create_context(self) ==
    [Call(self, "create_context", <<>>) EXCEPT !.context_created = TRUE]

create_symbol_table(self) ==
    [Call(self, "create_symbol_table", <<>>) EXCEPT !.symbol_table_created = TRUE]

\* Variant of add_state_variable that declares a boolean state variable as a
\* function and an integer one as a predicate; C7 fails under it.
add_state_variable_swapped(self, htn_sv) ==
    IF StateVariables_contains(self.state_variables, htn_sv) THEN self
    ELSE IF check_symbol(self, htn_sv.symbol) # "none"
    THEN Raise(self, check_symbol(self, htn_sv.symbol))
    ELSE LET s1 == [self EXCEPT !.state_variables = @ \cup {htn_sv}]
             signature == get_signature(s1, htn_sv.symbol, htn_sv.params)
         IN  IF signature.raised # "none" THEN Raise(s1, signature.raised)
             ELSE IF HtnType_eq(htn_sv.tpe, HTN_BOOLEAN)
             THEN Call(s1, "add_function", <<StrList(signature.value)>>)
             ELSE IF HtnType_eq(htn_sv.tpe, HTN_INTEGER)
             THEN Call(s1, "add_predicate", <<StrList(signature.value)>>)
             ELSE Raise(s1, "NotImplementedError")

add_state_variable(self, htn_sv) ==
    IF StateVariables_contains(self.state_variables, htn_sv) THEN self
    ELSE IF check_symbol(self, htn_sv.symbol) # "none"
    THEN Raise(self, check_symbol(self, htn_sv.symbol))
    ELSE LET s1 == [self EXCEPT !.state_variables = @ \cup {htn_sv}]
             signature == get_signature(s1, htn_sv.symbol, htn_sv.params)
         IN  IF signature.raised # "none" THEN Raise(s1, signature.raised)
             ELSE IF HtnType_eq(htn_sv.tpe, HTN_BOOLEAN)
             THEN Call(s1, "add_predicate", <<StrList(signature.value)>>)
             ELSE IF HtnType_eq(htn_sv.tpe, HTN_INTEGER)
             THEN Call(s1, "add_function", <<StrList(signature.value)>>)
             ELSE Raise(s1, "NotImplementedError")

add_action(self, htn_action) ==
    IF Tasks_contains(self.actions, htn_action) THEN self
    ELSE IF check_symbol(self, htn_action.symbol) # "none"
    THEN Raise(self, check_symbol(self, htn_action.symbol))
    ELSE IF check_context(self) # "none"
    THEN Raise(self, check_context(self))
    ELSE LET s1 == [self EXCEPT !.actions = @ \cup {htn_action}]
             signature == get_signature_temporal(s1, htn_action.symbol,
                              Task_all_params(htn_action), htn_action.interval, None)
             constraints == [i \in 1..Len(htn_action.constraints) |->
                                get_constraint(htn_action.constraints[i])]
             conditions == [i \in 1..Len(htn_action.conditions) |->
                               get_condition(s1, htn_action.conditions[i])]
             effects == [i \in 1..Len(htn_action.effects) |->
                            get_effect(s1, htn_action.effects[i])]
             constraint == HtnConstraintFactory_min_duration_eps(htn_action.interval, None)
         IN  IF signature.raised # "none" THEN Raise(s1, signature.raised)
             ELSE IF FirstRaised(conditions) # "none" THEN Raise(s1, FirstRaised(conditions))
             ELSE IF FirstRaised(effects) # "none" THEN Raise(s1, FirstRaised(effects))
             ELSE IF Len(effects) > 0
             THEN IF constraint.raised # "none" THEN Raise(s1, constraint.raised)
                  ELSE Call(s1, "add_action",
                            <<StrList(signature.value),
                              Append(constraints, get_constraint(constraint.value[1])),
                              Values(conditions), Values(effects)>>)
             ELSE Call(s1, "add_action",
                       <<StrList(signature.value), constraints, Values(conditions),
                         Values(effects)>>)

\* all_params is tuple(htn_method.all_params): the method's parameters in the
\* order Python iterates the set.
add_method(self, htn_method, all_params) ==
    IF Methods_contains(self.methods, htn_method) THEN self
    ELSE IF check_symbol(self, htn_method.symbol) # "none"
    THEN Raise(self, check_symbol(self, htn_method.symbol))
    ELSE IF check_context(self) # "none"
    THEN Raise(self, check_context(self))
    ELSE LET s1 == [self EXCEPT !.methods = @ \cup {htn_method}]
             signature == get_signature_temporal(s1, htn_method.symbol, all_params,
                              HtnMethod_interval(htn_method), None)
             constraints == [i \in 1..Len(htn_method.constraints) |->
                                get_constraint(htn_method.constraints[i])]
             conditions == [i \in 1..Len(htn_method.conditions) |->
                               get_condition(s1, htn_method.conditions[i])]
             task == get_signature(s1, htn_method.task.symbol,
                                   Task_all_params(htn_method.task))
             label_mapping == htn_method.task_network.label_mapping
             subtasks == [i \in 1..Len(label_mapping) |->
                             get_signature_temporal(s1, label_mapping[i].task.symbol,
                                 Task_all_params(label_mapping[i].task),
                                 label_mapping[i].task.interval,
                                 Some(label_mapping[i].label))]
             subtasks_constraints ==
                 [i \in 1..Len(htn_method.task_network.constraints) |->
                     get_constraint(htn_method.task_network.constraints[i])]
         IN  IF signature.raised # "none" THEN Raise(s1, signature.raised)
             ELSE IF FirstRaised(conditions) # "none" THEN Raise(s1, FirstRaised(conditions))
             ELSE IF task.raised # "none" THEN Raise(s1, task.raised)
             ELSE IF FirstRaised(subtasks) # "none" THEN Raise(s1, FirstRaised(subtasks))
             ELSE Call(s1, "add_method",
                       <<StrList(signature.value), constraints, Values(conditions),
                         StrList(task.value), Values(subtasks), subtasks_constraints>>)

add_initial_effect(self, htn_effect) ==
    IF Effects_contains(self.initial_effects, htn_effect) THEN self
    ELSE IF check_symbol(self, htn_effect.sv.symbol) # "none"
    THEN Raise(self, check_symbol(self, htn_effect.sv.symbol))
    ELSE IF check_context(self) # "none"
    THEN Raise(self, check_context(self))
    ELSE LET s1 == [self EXCEPT !.initial_effects = @ \cup {htn_effect}]
         IN  IF get_effect(s1, htn_effect).raised # "none"
             THEN Raise(s1, get_effect(s1, htn_effect).raised)
             ELSE Call(s1, "add_initial_effect", <<StrList(get_effect(s1, htn_effect).value)>>)

\* htn_task_network is None or Some(task network).
set_goal(self, htn_task_network) ==
    IF htn_task_network = None THEN self
    ELSE IF check_symbol_table(self) # "none" THEN Raise(self, check_symbol_table(self))
    ELSE IF check_context(self) # "none" THEN Raise(self, check_context(self))
    ELSE LET label_mapping == htn_task_network[1].label_mapping
             goal_tasks == [i \in 1..Len(label_mapping) |->
                               get_signature_temporal(self, label_mapping[i].task.symbol,
                                   Task_all_params(label_mapping[i].task),
                                   label_mapping[i].task.interval,
                                   Some(label_mapping[i].label))]
             constraints == [i \in 1..Len(htn_task_network[1].constraints) |->
                                get_constraint(htn_task_network[1].constraints[i])]
         IN  IF FirstRaised(goal_tasks) # "none" THEN Raise(self, FirstRaised(goal_tasks))
             ELSE Call(self, "add_goal", <<Values(goal_tasks), constraints>>)

----------------------------------------------------------------------------
(* htn.py: the interval factory.  _make reads the shared counter for the   *)
(* start identifier, increments it, reads it for the end identifier and    *)
(* increments it again.                                                    *)

\* Variant of _make that increments the counter once, after both names are
\* built; C12 fails under it.
HtnTemporalIntervalFactory_make_once(count, start_id, end_id) ==
    [interval |-> HtnTemporalInterval(
                      HtnTimepoint("__" \o start_id \o "__" \o ToString(count)),
                      HtnTimepoint("__" \o end_id \o "__" \o ToString(count))),
     counter |-> count + 1]

HtnTemporalIntervalFactory_make(count, start_id, end_id) ==
    [interval |-> HtnTemporalInterval(
                      HtnTimepoint("__" \o start_id \o "__" \o ToString(count)),
                      HtnTimepoint("__" \o end_id \o "__" \o ToString(count + 1))),
     counter |-> count + 2]

HtnTemporalIntervalFactory_default(count) == HtnTemporalIntervalFactory_make(count, "d", "d")

HtnTemporalIntervalFactory_at_start(count) == HtnTemporalIntervalFactory_make(count, "s", "s")

HtnTemporalIntervalFactory_at_end(count) == HtnTemporalIntervalFactory_make(count, "e", "e")

HtnTemporalIntervalFactory_over_all(count) == HtnTemporalIntervalFactory_make(count, "s", "e")

----------------------------------------------------------------------------
(* The values the operations are called with: a robot that moves between   *)
(* locations (the fixtures of tests/abstract_test.py, cut down).           *)

t_location == HtnType("location", None)

t_locatable == HtnType("locatable", None)

t_robot == HtnType("robot", t_locatable)

v_robot == HtnVariable("?r", t_robot)

v_to == HtnVariable("?to", t_location)

o_loc0 == HtnConstant("L0", t_location)

o_robot == HtnConstant("R", t_robot)

s_sv_at == HtnSymbol("HtnStateVariableSymbol", "at")

s_sv_fuel == HtnSymbol("HtnStateVariableSymbol", "fuel")

s_p_move == HtnSymbol("HtnPrimitiveTaskSymbol", "move")

s_c_go == HtnSymbol("HtnCompoundTaskSymbol", "go")

s_m_go == HtnSymbol("HtnMethodSymbol", "m-go")

l_0 == HtnLabel("l0")

l_1 == HtnLabel("l1")

\* The default interval of the k-th entity built without an interval.
DefaultInterval(k) == HtnTemporalIntervalFactory_default(2 * k).interval

sv_at_robot_to == HtnStateVariable(s_sv_at, <<v_robot, v_to>>, HTN_BOOLEAN)

sv_at_robot_loc0 == HtnStateVariable(s_sv_at, <<o_robot, o_loc0>>, HTN_BOOLEAN)

sv_fuel_robot == HtnStateVariable(s_sv_fuel, <<v_robot>>, HTN_INTEGER)

\* A state variable the solver cannot take: its value is a location.
sv_at_robot == HtnStateVariable(s_sv_at, <<v_robot>>, t_location)

p_move ==
    HtnPrimitiveTask(s_p_move, <<v_robot, v_to>>, DefaultInterval(0), <<>>, <<>>,
                     <<HtnEffect(sv_at_robot_to, HTN_TRUE, DefaultInterval(1))>>)

\* An action without effects.
p_move_idle ==
    HtnPrimitiveTask(s_p_move, <<v_robot, v_to>>, DefaultInterval(2),
                     <<HtnConstraint(v_to, o_loc0, "!=")>>, <<>>, <<>>)

c_go == HtnCompoundTask(s_c_go, <<v_robot, v_to>>, DefaultInterval(3))

c_go_robot_loc0 == HtnCompoundTask(s_c_go, <<o_robot, o_loc0>>, DefaultInterval(4))

c_go_step == HtnCompoundTask(s_c_go, <<v_robot, v_to>>, DefaultInterval(6))

\* go decomposes into the same smaller go, twice, under two labels.
m_go ==
    HtnMethod(c_go,
              HtnTaskNetwork(<<HtnLabelMappingPair(l_0, c_go_step),
                               HtnLabelMappingPair(l_1, c_go_step)>>,
                             <<HtnTemporalConstraint(HtnTask_end(c_go_step),
                                                     HtnTask_start(c_go_step),
                                                     "<=", Some(l_0), Some(l_1))>>),
              <<>>, <<>>, s_m_go)

goal ==
    HtnTaskNetwork(<<HtnLabelMappingPair(l_0, c_go_robot_loc0),
                     HtnLabelMappingPair(l_1, c_go_robot_loc0)>>, <<>>)

i_robot_loc0 == HtnEffect(sv_at_robot_loc0, HTN_TRUE, DefaultInterval(5))

TypeInputs == {t_robot}

ConstantInputs == {o_loc0}

VariableInputs == {v_robot}

\* <<symbol, symbol_type, htn_type>>
SymbolInputs ==
    {<<s_sv_at, "PREDICATE", None>>, <<s_sv_fuel, "FUNCTION", None>>,
     <<s_p_move, "ACTION", None>>, <<s_c_go, "TASK", None>>, <<s_m_go, "METHOD", None>>,
     <<HtnSymbol("HtnSymbol", "R"), "CONSTANT", t_robot>>,
     <<HtnSymbol("HtnSymbol", "R"), "CONSTANT", None>>,
     <<s_c_go, "OTHER", None>>}

StateVariableInputs == {sv_at_robot_to, sv_fuel_robot, sv_at_robot}

ActionInputs == {p_move, p_move_idle}

MethodInputs == {m_go}

GoalInputs == {None, Some(goal)}

EffectInputs == {i_robot_loc0}

----------------------------------------------------------------------------
(* The pipeline as a state machine: any operation, with any of the values  *)
(* above, in any order.                                                    *)

Self ==
    [context_created |-> context_created, symbol_table_created |-> symbol_table_created,
     actions |-> actions, constants |-> constants, initial_effects |-> initial_effects,
     methods |-> methods, state_variables |-> state_variables, symbols |-> symbols,
     tasks |-> tasks, types |-> types, variables |-> variables, calls |-> calls,
     raised |-> raised]

\* The self a call starts from: no exception is pending.
Enter == [Self EXCEPT !.raised = "none"]

Become(self) ==
    /\ context_created' = self.context_created
    /\ symbol_table_created' = self.symbol_table_created
    /\ actions' = self.actions
    /\ constants' = self.constants
    /\ initial_effects' = self.initial_effects
    /\ methods' = self.methods
    /\ state_variables' = self.state_variables
    /\ symbols' = self.symbols
    /\ tasks' = self.tasks
    /\ types' = self.types
    /\ variables' = self.variables
    /\ calls' = self.calls
    /\ raised' = self.raised

\* The ChroniclesProblem __init__ leaves behind.
Constructed ==
    /\ context_created = ChroniclesProblem_init.context_created
    /\ symbol_table_created = ChroniclesProblem_init.symbol_table_created
    /\ actions = ChroniclesProblem_init.actions
    /\ constants = ChroniclesProblem_init.constants
    /\ initial_effects = ChroniclesProblem_init.initial_effects
    /\ methods = ChroniclesProblem_init.methods
    /\ state_variables = ChroniclesProblem_init.state_variables
    /\ symbols = ChroniclesProblem_init.symbols
    /\ tasks = ChroniclesProblem_init.tasks
    /\ types = ChroniclesProblem_init.types
    /\ variables = ChroniclesProblem_init.variables
    /\ calls = ChroniclesProblem_init.calls
    /\ raised = ChroniclesProblem_init.raised

NoProblem == [name |-> "none"]

NoDomain == [name |-> "none"]

NoCall == [op |-> "none"]

\* Nothing is going on outside the pipeline.
EntitiesIdle ==
    /\ counter = 0
    /\ minted = <<>>
    /\ domain = NoDomain
    /\ inputs = NoCall
    /\ result = NoCall
    /\ frames = <<>>

Init ==
    /\ Constructed
    /\ pc = "api"
    /\ todo = {}
    /\ htn_problem = NoProblem
    /\ EntitiesIdle

Api ==
    /\ pc = "api"
    /\ Len(calls) < MaxCalls
    /\ UNCHANGED <<pc, todo, htn_problem, entity_vars>>

AddType == Api /\ \E t \in TypeInputs : Become(add_type(Enter, t))

AddSymbol == Api /\ \E i \in SymbolInputs : Become(add_symbol(Enter, i[1], i[2], i[3]))

AddConstant == Api /\ \E c \in ConstantInputs : Become(add_constant(Enter, c))

AddVariable == Api /\ \E v \in VariableInputs : Become(add_variable(Enter, v))

CreateSymbolTable == Api /\ Become(create_symbol_table(Enter))

AddStateVariable == Api /\ \E sv \in StateVariableInputs : Become(add_state_variable(Enter, sv))

CreateContext == Api /\ Become(create_context(Enter))

AddAction == Api /\ \E a \in ActionInputs : Become(add_action(Enter, a))

AddMethod ==
    Api /\ \E m \in MethodInputs :
              \E all_params \in Orderings(HtnMethod_all_params(m)) :
                  Become(add_method(Enter, m, all_params))

SetGoal == Api /\ \E tn \in GoalInputs : Become(set_goal(Enter, tn))

AddInitialEffect == Api /\ \E e \in EffectInputs : Become(add_initial_effect(Enter, e))

Next ==
    \/ AddType
    \/ AddSymbol
    \/ AddConstant
    \/ AddVariable
    \/ CreateSymbolTable
    \/ AddStateVariable
    \/ CreateContext
    \/ AddAction
    \/ AddMethod
    \/ SetGoal
    \/ AddInitialEffect

Spec == Init /\ [][Next]_vars

----------------------------------------------------------------------------
(* Membership in the registries of the pipeline.                           *)

TypeRegistered(t) == Types_contains(types, t)

SymbolRegistered(sym) == Symbols_contains(symbols, sym)

ConstantRegistered(c) == TypedObjects_contains(constants, c)

VariableRegistered(v) == TypedObjects_contains(variables, v)

StateVariableRegistered(sv) ==
    StateVariables_contains(state_variables, sv)

ActionRegistered(a) == Tasks_contains(actions, a)

MethodRegistered(m) == Methods_contains(methods, m)

EffectRegistered(e) == Effects_contains(initial_effects, e)

\* The call left the registries of the content phase and the builder alone.
NothingAdded(r) ==
    /\ r.actions = actions
    /\ r.methods = methods
    /\ r.initial_effects = initial_effects
    /\ r.state_variables = state_variables
    /\ r.calls = calls

----------------------------------------------------------------------------
(* Claims about the pipeline used freely (specification Spec).             *)

\* C1: in every reachable state, add_type, add_symbol, add_constant,
\* add_variable, add_action and add_method called with an element that is
\* already registered return normally, leave their registry as it is and
\* forward no call to the solver builder.
C1_Idempotent ==
    /\ \A t \in TypeInputs :
          TypeRegistered(t) =>
              LET r == add_type(Enter, t)
              IN  r.types = types /\ r.calls = calls /\ r.raised = "none"
    /\ \A i \in SymbolInputs :
          SymbolRegistered(i[1]) =>
              LET r == add_symbol(Enter, i[1], i[2], i[3])
              IN  r.symbols = symbols /\ r.calls = calls /\ r.raised = "none"
    /\ \A c \in ConstantInputs :
          ConstantRegistered(c) =>
              LET r == add_constant(Enter, c)
              IN  r.constants = constants /\ r.calls = calls /\ r.raised = "none"
    /\ \A v \in VariableInputs :
          VariableRegistered(v) =>
              LET r == add_variable(Enter, v)
              IN  r.variables = variables /\ r.calls = calls /\ r.raised = "none"
    /\ \A a \in ActionInputs :
          ActionRegistered(a) =>
              LET r == add_action(Enter, a)
              IN  r.actions = actions /\ r.calls = calls /\ r.raised = "none"
    /\ \A m \in MethodInputs :
          MethodRegistered(m) =>
              \A all_params \in Orderings(HtnMethod_all_params(m)) :
                  LET r == add_method(Enter, m, all_params)
                  IN  r.methods = methods /\ r.calls = calls /\ r.raised = "none"

\* A state in which an action and its symbol are registered, so that adding
\* either again is a second call.
C1_Witness ==
    /\ ActionRegistered(p_move)
    /\ SymbolRegistered(s_p_move)
    /\ \E i \in 1..Len(calls) : calls[i].op = "add_action"

\* C2: with the symbol table created, the element's own symbol registered and
\* the context not created, add_action, add_method and add_initial_effect on
\* an element not yet registered, and set_goal on a task network, raise
\* UncreatedContextError, add nothing to the registries and forward nothing.
C2_ContextGate ==
    (symbol_table_created /\ ~context_created) =>
        /\ \A a \in ActionInputs :
              (~ActionRegistered(a) /\ SymbolRegistered(a.symbol)) =>
                  LET r == add_action(Enter, a)
                  IN  r.raised = "UncreatedContextError" /\ NothingAdded(r)
        /\ \A m \in MethodInputs :
              (~MethodRegistered(m) /\ SymbolRegistered(m.symbol)) =>
                  \A all_params \in Orderings(HtnMethod_all_params(m)) :
                      LET r == add_method(Enter, m, all_params)
                      IN  r.raised = "UncreatedContextError" /\ NothingAdded(r)
        /\ \A e \in EffectInputs :
              (~EffectRegistered(e) /\ SymbolRegistered(e.sv.symbol)) =>
                  LET r == add_initial_effect(Enter, e)
                  IN  r.raised = "UncreatedContextError" /\ NothingAdded(r)
        /\ \A tn \in GoalInputs :
              tn # None =>
                  LET r == set_goal(Enter, tn)
                  IN  r.raised = "UncreatedContextError" /\ NothingAdded(r)

\* An action whose symbol is registered was refused for want of a context.
C2_Witness ==
    /\ raised = "UncreatedContextError"
    /\ symbol_table_created
    /\ ~context_created
    /\ SymbolRegistered(s_p_move)
    /\ actions = {}
    /\ Len(calls) = 2

\* C3: create_context before create_symbol_table fails and leaves
\* context_created false, so the context is never created without the symbol
\* table.
C3_ContextNeedsSymbolTable ==
    /\ ~symbol_table_created =>
          LET r == create_context(Enter)
          IN  r.raised = "UncreatedSymbolTableError" /\ ~r.context_created
    /\ context_created => symbol_table_created

\* C4: add_state_variable, add_action, add_method and add_initial_effect on an
\* element not yet registered raise UncreatedSymbolTableError when the symbol
\* table is not created, and otherwise UnregisteredSymbolError when the
\* element's own symbol is not registered; the element is not added and
\* nothing is forwarded.
SymbolGateError(symbol) ==
    IF ~symbol_table_created THEN "UncreatedSymbolTableError"
    ELSE IF ~SymbolRegistered(symbol) THEN "UnregisteredSymbolError"
    ELSE "none"

C4_SymbolGate ==
    /\ \A sv \in StateVariableInputs :
          (~StateVariableRegistered(sv) /\ SymbolGateError(sv.symbol) # "none") =>
              LET r == add_state_variable(Enter, sv)
              IN  r.raised = SymbolGateError(sv.symbol) /\ NothingAdded(r)
    /\ \A a \in ActionInputs :
          (~ActionRegistered(a) /\ SymbolGateError(a.symbol) # "none") =>
              LET r == add_action(Enter, a)
              IN  r.raised = SymbolGateError(a.symbol) /\ NothingAdded(r)
    /\ \A m \in MethodInputs :
          (~MethodRegistered(m) /\ SymbolGateError(m.symbol) # "none") =>
              \A all_params \in Orderings(HtnMethod_all_params(m)) :
                  LET r == add_method(Enter, m, all_params)
                  IN  r.raised = SymbolGateError(m.symbol) /\ NothingAdded(r)
    /\ \A e \in EffectInputs :
          (~EffectRegistered(e) /\ SymbolGateError(e.sv.symbol) # "none") =>
              LET r == add_initial_effect(Enter, e)
              IN  r.raised = SymbolGateError(e.sv.symbol) /\ NothingAdded(r)

\* With the symbol table created and no symbol registered, an element was
\* refused for its unregistered symbol.
C4_Witness ==
    /\ raised = "UnregisteredSymbolError"
    /\ symbol_table_created
    /\ symbols = {}
    /\ actions = {} /\ methods = {} /\ state_variables = {} /\ initial_effects = {}

\* The builder calls that register a symbol or a type.
VocabularyOps ==
    {"add_type", "add_action_symbol", "add_constant_symbol", "add_method_symbol",
     "add_predicate_symbol", "add_function_symbol", "add_task_symbol"}

CallsOf(cs, ops) == {i \in 1..Len(cs) : cs[i].op \in ops}

\* C5: once create_symbol_table has been called, no later step changes the
\* symbols or the types registry or forwards a symbol or a type.
C5_VocabularyFrozen ==
    [][symbol_table_created =>
          /\ symbols' = symbols
          /\ types' = types
          /\ CallsOf(calls', VocabularyOps) = CallsOf(calls, VocabularyOps)]_vars

\* C6: once create_context has been called, no later step changes the
\* state_variables registry or forwards add_predicate or add_function.
C6_DeclarationsFrozen ==
    [][context_created =>
          /\ state_variables' = state_variables
          /\ CallsOf(calls', {"add_predicate", "add_function"})
                = CallsOf(calls, {"add_predicate", "add_function"})]_vars

\* C7: after create_symbol_table, add_state_variable on a state variable not
\* yet registered whose symbol is registered forwards exactly one
\* add_predicate(signature) for a boolean, exactly one add_function(signature)
\* for an integer, and otherwise raises NotImplementedError and forwards
\* nothing; the signature is the symbol name followed by one entry per
\* parameter.
C7_StateVariableKind ==
    symbol_table_created =>
        \A sv \in StateVariableInputs :
            (~StateVariableRegistered(sv) /\ SymbolRegistered(sv.symbol)) =>
                LET r == add_state_variable(Enter, sv)
                    op == IF sv.tpe = HTN_BOOLEAN THEN "add_predicate" ELSE "add_function"
                IN  IF sv.tpe \in {HTN_BOOLEAN, HTN_INTEGER}
                    THEN /\ r.raised = "none"
                         /\ Len(r.calls) = Len(calls) + 1
                         /\ SubSeq(r.calls, 1, Len(calls)) = calls
                         /\ r.calls[Len(r.calls)].op = op
                         /\ Len(r.calls[Len(r.calls)].args) = 1
                         /\ Len(r.calls[Len(r.calls)].args[1]) = 1
                         /\ Len(r.calls[Len(r.calls)].args[1][1]) = 1 + Len(sv.params)
                         /\ r.calls[Len(r.calls)].args[1][1][1] = sv.symbol.name
                    ELSE /\ r.raised = "NotImplementedError"
                         /\ r.calls = calls

\* An integer state variable was declared as a function and a state variable
\* of another type was refused.
C7_Witness ==
    /\ raised = "NotImplementedError"
    /\ \E i \in 1..Len(calls) : calls[i].op = "add_function"
    /\ ~ \E i \in 1..Len(calls) : calls[i].op = "add_predicate"


----------------------------------------------------------------------------
(* lcp_converter.py: ChroniclesProblem.from_htn, one step per handler call *)
(* it makes.  pc is the loop or call from_htn stands before, todo the      *)
(* elements the running loop has not visited yet; Python iterates a set in *)
(* an order the model leaves open.                                         *)

HtnLanguage(Vars, Csts, StVars, Prims, Comps, Labs) ==
    [Vars |-> Vars, Csts |-> Csts, StVars |-> StVars, Prims |-> Prims, Comps |-> Comps,
     Labs |-> Labs]

HtnDomain(L, Tp, Tc, M) == [L |-> L, Tp |-> Tp, Tc |-> Tc, M |-> M]

HtnProblem(D, s_I, tn_I) == [name |-> "problem", D |-> D, s_I |-> s_I, tn_I |-> tn_I]

HtnDomain_state_variables(D) ==
    UNION {Range(HtnPrimitiveTask_state_variables(prim)) : prim \in D.Tp}
        \cup UNION {HtnMethod_state_variables(method) : method \in D.M}

\* Variant of HtnProblem_state_variables that forgets the initial state; C9
\* fails under it.
HtnProblem_state_variables_domain_only(problem) == HtnDomain_state_variables(problem.D)

HtnProblem_state_variables(problem) ==
    HtnDomain_state_variables(problem.D) \cup {effect.sv : effect \in problem.s_I}

\* HtnParametricSymbol.variables and constants: the params of each class.
HtnParametricSymbol_variables(p) ==
    LET is_variable(x) == x.cls \in {"HtnVariable", "HtnVariableTimepoint"}
    IN  SelectSeq(p.params, is_variable)

HtnParametricSymbol_constants(p) ==
    LET is_constant(x) == x.cls \in {"HtnConstant", "HtnConstantTimepoint"}
    IN  SelectSeq(p.params, is_constant)

\* S.update(xs) for a Python set of typed objects, and of symbols.
RECURSIVE TypedObjects_update(_, _)
TypedObjects_update(S, xs) ==
    IF xs = <<>> THEN S
    ELSE TypedObjects_update(IF TypedObjects_contains(S, Head(xs)) THEN S
                             ELSE S \cup {Head(xs)}, Tail(xs))

RECURSIVE Symbols_update(_, _)
Symbols_update(S, xs) ==
    IF xs = <<>> THEN S
    ELSE Symbols_update(IF Symbols_contains(S, Head(xs)) THEN S ELSE S \cup {Head(xs)},
                        Tail(xs))

\* Returns the language the call leaves behind and what it raised.
HtnLanguage_add_typed_object(L, typed_object) ==
    IF typed_object.cls \in {"HtnConstant", "HtnConstantTimepoint"}
    THEN [raised |-> "none", L |-> [L EXCEPT !.Csts = TypedObjects_update(@, <<typed_object>>)]]
    ELSE IF typed_object.cls \in {"HtnVariable", "HtnVariableTimepoint"}
    THEN [raised |-> "none", L |-> [L EXCEPT !.Vars = TypedObjects_update(@, <<typed_object>>)]]
    ELSE [raised |-> "TypeError", L |-> L]

\* Variant of HtnLanguage.merge that takes the other language's sets for its
\* own; C28 fails under it.
HtnLanguage_merge_replaced(L, language) == language

\* S.update(T) of two Python sets: the elements of T that S does not hold
\* already are added.
HtnLanguage_merge(L, language) ==
    [Vars |-> L.Vars \cup {x \in language.Vars : ~TypedObjects_contains(L.Vars, x)},
     Csts |-> L.Csts \cup {x \in language.Csts : ~TypedObjects_contains(L.Csts, x)},
     StVars |-> L.StVars \cup {x \in language.StVars : ~Symbols_contains(L.StVars, x)},
     Prims |-> L.Prims \cup {x \in language.Prims : ~Symbols_contains(L.Prims, x)},
     Comps |-> L.Comps \cup {x \in language.Comps : ~Symbols_contains(L.Comps, x)},
     Labs |-> L.Labs \cup language.Labs]

HtnLanguage_add_task(L, task) ==
    LET named == [L EXCEPT !.Vars = TypedObjects_update(@, HtnParametricSymbol_variables(task)),
                           !.Csts = TypedObjects_update(@, HtnParametricSymbol_constants(task))]
        svs == HtnPrimitiveTask_state_variables(task)
    IN  IF task.cls = "HtnPrimitiveTask"
        THEN [named EXCEPT !.Prims = Symbols_update(@, <<task.symbol>>),
                           !.StVars = Symbols_update(@, [i \in 1..Len(svs) |-> svs[i].symbol])]
        ELSE [named EXCEPT !.Comps = Symbols_update(@, <<task.symbol>>)]

\* The loop of HtnLanguage.add_method over the label mapping.
RECURSIVE HtnLanguage_add_label_mapping(_, _)
HtnLanguage_add_label_mapping(L, label_mapping) ==
    IF label_mapping = <<>> THEN L
    ELSE HtnLanguage_add_label_mapping(
             HtnLanguage_add_task([L EXCEPT !.Labs = @ \cup {Head(label_mapping).label}],
                                  Head(label_mapping).task),
             Tail(label_mapping))

HtnLanguage_add_method(L, method) ==
    LET conditions == method.conditions
        tasked == HtnLanguage_add_task(L, method.task)
    IN  HtnLanguage_add_label_mapping(
            [tasked EXCEPT !.StVars =
                Symbols_update(@, [i \in 1..Len(conditions) |-> conditions[i].sv.symbol])],
            method.task_network.label_mapping)

HtnDomain_add_task(D, task) ==
    LET added == [D EXCEPT !.L = HtnLanguage_add_task(@, task)]
    IN  IF task.cls = "HtnPrimitiveTask"
        THEN [added EXCEPT !.Tp = IF Tasks_contains(@, task) THEN @ ELSE @ \cup {task}]
        ELSE [added EXCEPT !.Tc = IF Tasks_contains(@, task) THEN @ ELSE @ \cup {task}]

\* The loop of HtnDomain.add_method over the label mapping.
RECURSIVE HtnDomain_add_label_mapping(_, _)
HtnDomain_add_label_mapping(D, label_mapping) ==
    IF label_mapping = <<>> THEN D
    ELSE HtnDomain_add_label_mapping(HtnDomain_add_task(D, Head(label_mapping).task),
                                     Tail(label_mapping))

\* Variant of HtnDomain.add_method without the loop over the subtasks; C27
\* fails under it.
HtnDomain_add_method_alone(D, method) ==
    [D EXCEPT !.L = HtnLanguage_add_method(@, method),
              !.M = IF Methods_contains(@, method) THEN @ ELSE @ \cup {method}]

HtnDomain_add_method(D, method) ==
    HtnDomain_add_label_mapping(
        [D EXCEPT !.L = HtnLanguage_add_method(@, method),
                  !.M = IF Methods_contains(@, method) THEN @ ELSE @ \cup {method}],
        method.task_network.label_mapping)

\* Returns the receiver (self) and the argument (domain) the call leaves
\* behind: merge reads the argument and writes to the receiver only.
HtnDomain_merge(D, domain_arg) ==
    [self |-> [L |-> HtnLanguage_merge(D.L, domain_arg.L),
               Tp |-> D.Tp \cup {x \in domain_arg.Tp : ~Tasks_contains(D.Tp, x)},
               Tc |-> D.Tc \cup {x \in domain_arg.Tc : ~Tasks_contains(D.Tc, x)},
               M |-> D.M \cup {x \in domain_arg.M : ~Methods_contains(D.M, x)}],
     domain |-> domain_arg]

\* The types sv_map can hold for a symbol: the dict comprehension keeps, for
\* each symbol, the type of the state variable iterated last.
sv_map(problem, sv_sym) ==
    {sv.tpe : sv \in {x \in HtnProblem_state_variables(problem) :
                          HtnSymbol_hash(x.symbol) = HtnSymbol_hash(sv_sym)
                          /\ HtnSymbol_eq(x.symbol, sv_sym)}}

\* Variant of from_htn_stages that sets the goal after the initial state; C8
\* fails under it.
from_htn_stages_goal_last ==
    <<"constants", "variables", "sv_symbols", "action_symbols", "task_symbols",
      "method_symbols", "create_symbol_table", "state_variables", "create_context",
      "actions", "methods", "initial_effects", "set_goal", "done">>

\* The loops and calls of from_htn, in program order.
from_htn_stages ==
    <<"constants", "variables", "sv_symbols", "action_symbols", "task_symbols",
      "method_symbols", "create_symbol_table", "state_variables", "create_context",
      "actions", "methods", "set_goal", "initial_effects", "done">>

\* What the loop of a stage iterates over.
Items(problem, stage) ==
    CASE stage = "constants" -> problem.D.L.Csts
      [] stage = "variables" -> problem.D.L.Vars
      [] stage = "sv_symbols" ->
            {sv_sym \in problem.D.L.StVars :
                \E sv \in HtnProblem_state_variables(problem) :
                    /\ HtnSymbol_hash(sv.symbol) = HtnSymbol_hash(sv_sym)
                    /\ HtnSymbol_eq(sv.symbol, sv_sym)}
      [] stage = "action_symbols" -> problem.D.L.Prims
      [] stage = "task_symbols" -> problem.D.L.Comps
      [] stage = "method_symbols" -> problem.D.M
      [] stage = "state_variables" -> HtnProblem_state_variables(problem)
      [] stage = "actions" -> problem.D.Tp
      [] stage = "methods" -> problem.D.M
      [] stage = "initial_effects" -> problem.s_I
      [] OTHER -> {}

IsLoop(stage) == stage \notin {"create_symbol_table", "create_context", "set_goal", "done"}

\* The first stage after position k that from_htn stops at: a call, or a loop
\* with something to iterate over.
RECURSIVE StageAfter(_, _)
StageAfter(problem, k) ==
    IF k + 1 >= Len(from_htn_stages) THEN "done"
    ELSE IF IsLoop(from_htn_stages[k + 1]) /\ Items(problem, from_htn_stages[k + 1]) = {}
         THEN StageAfter(problem, k + 1)
         ELSE from_htn_stages[k + 1]

StageIndex(stage) == CHOOSE k \in 1..Len(from_htn_stages) : from_htn_stages[k] = stage


\* The problems from_htn is run on.
sv_fuel_R == HtnStateVariable(s_sv_fuel, <<o_robot>>, HTN_INTEGER)

sv_at_R == HtnStateVariable(s_sv_at, <<o_robot>>, t_location)

i_fuel_R == HtnEffect(sv_fuel_R, HtnConstant("5", HTN_INTEGER), DefaultInterval(7))

\* An initial effect on a state variable the solver cannot take.
i_at_R == HtnEffect(sv_at_R, o_loc0, DefaultInterval(8))

LanguageFull ==
    HtnLanguage({v_robot, v_to}, {o_loc0, o_robot}, {s_sv_at, s_sv_fuel}, {s_p_move},
                {s_c_go}, {l_0, l_1})

Languages ==
    {LanguageFull,
     [LanguageFull EXCEPT !.StVars = {s_sv_fuel}],
     [LanguageFull EXCEPT !.Prims = {}],
     [LanguageFull EXCEPT !.Comps = {}, !.Csts = {o_loc0}, !.Vars = {v_robot}]}

Problems ==
    {HtnProblem(HtnDomain(L, Tp, {}, M), s_I, tn_I) :
        L \in Languages,
        Tp \in {{}, {p_move}, {p_move, p_move_idle}},
        M \in {{}, {m_go}},
        s_I \in {{}, {i_robot_loc0}, {i_robot_loc0, i_fuel_R}, {i_at_R}},
        tn_I \in GoalInputs}

InitFromHtn ==
    /\ Constructed
    /\ htn_problem \in Problems
    /\ pc = StageAfter(htn_problem, 0)
    /\ todo = Items(htn_problem, pc)
    /\ EntitiesIdle

\* The handler returned self with rest left to iterate over: an exception
\* ends from_htn, the end of a loop moves on to the next stage.
Step(self, rest) ==
    /\ Become(self)
    /\ UNCHANGED <<htn_problem, entity_vars>>
    /\ IF self.raised # "none"
       THEN pc' = "failed" /\ todo' = {}
       ELSE IF rest # {}
       THEN pc' = pc /\ todo' = rest
       ELSE /\ pc' = StageAfter(htn_problem, StageIndex(pc))
            /\ todo' = Items(htn_problem, pc')

FromHtnAddConstant ==
    /\ pc = "constants"
    /\ \E constant \in todo : Step(add_constant(Enter, constant), todo \ {constant})

FromHtnAddVariable ==
    /\ pc = "variables"
    /\ \E variable \in todo : Step(add_variable(Enter, variable), todo \ {variable})

FromHtnAddStateVariableSymbol ==
    /\ pc = "sv_symbols"
    /\ \E sv_sym \in todo : \E tpe \in sv_map(htn_problem, sv_sym) :
          Step(IF HtnType_eq(tpe, HTN_BOOLEAN)
               THEN add_symbol(Enter, sv_sym, "PREDICATE", None)
               ELSE IF HtnType_eq(tpe, HTN_INTEGER)
               THEN add_symbol(Enter, sv_sym, "FUNCTION", None)
               ELSE Raise(Enter, "NotImplementedError"),
               todo \ {sv_sym})

FromHtnAddActionSymbol ==
    /\ pc = "action_symbols"
    /\ \E action_sym \in todo :
          Step(add_symbol(Enter, action_sym, "ACTION", None), todo \ {action_sym})

FromHtnAddTaskSymbol ==
    /\ pc = "task_symbols"
    /\ \E task_sym \in todo :
          Step(add_symbol(Enter, task_sym, "TASK", None), todo \ {task_sym})

FromHtnAddMethodSymbol ==
    /\ pc = "method_symbols"
    /\ \E method \in todo :
          Step(add_symbol(Enter, method.symbol, "METHOD", None), todo \ {method})

FromHtnCreateSymbolTable ==
    /\ pc = "create_symbol_table"
    /\ Step(create_symbol_table(Enter), {})

FromHtnAddStateVariable ==
    /\ pc = "state_variables"
    /\ \E sv \in todo : Step(add_state_variable(Enter, sv), todo \ {sv})

FromHtnCreateContext ==
    /\ pc = "create_context"
    /\ Step(create_context(Enter), {})

FromHtnAddAction ==
    /\ pc = "actions"
    /\ \E action \in todo : Step(add_action(Enter, action), todo \ {action})

FromHtnAddMethod ==
    /\ pc = "methods"
    /\ \E method \in todo : \E all_params \in Orderings(HtnMethod_all_params(method)) :
          Step(add_method(Enter, method, all_params), todo \ {method})

FromHtnSetGoal ==
    /\ pc = "set_goal"
    /\ Step(set_goal(Enter, htn_problem.tn_I), {})

FromHtnAddInitialEffect ==
    /\ pc = "initial_effects"
    /\ \E init_effect \in todo :
          Step(add_initial_effect(Enter, init_effect), todo \ {init_effect})

NextFromHtn ==
    \/ FromHtnAddConstant
    \/ FromHtnAddVariable
    \/ FromHtnAddStateVariableSymbol
    \/ FromHtnAddActionSymbol
    \/ FromHtnAddTaskSymbol
    \/ FromHtnAddMethodSymbol
    \/ FromHtnCreateSymbolTable
    \/ FromHtnAddStateVariable
    \/ FromHtnCreateContext
    \/ FromHtnAddAction
    \/ FromHtnAddMethod
    \/ FromHtnSetGoal
    \/ FromHtnAddInitialEffect

SpecFromHtn == InitFromHtn /\ [][NextFromHtn]_vars


----------------------------------------------------------------------------
(* Claims about from_htn (specification SpecFromHtn).                      *)

\* The group of a builder call in the order from_htn is to keep.
Rank(op) ==
    CASE op \in VocabularyOps -> 1
      [] op = "create_symbol_table" -> 2
      [] op \in {"add_predicate", "add_function"} -> 3
      [] op = "create_context" -> 4
      [] op = "add_action" -> 5
      [] op = "add_method" -> 6
      [] op = "add_goal" -> 7
      [] op = "add_initial_effect" -> 8

Count(ops) == Cardinality(CallsOf(calls, ops))

\* C8: in every execution of from_htn the builder receives its calls in
\* groups: types and symbols, create_symbol_table once, add_predicate and
\* add_function, create_context once, add_action, add_method, at most one
\* add_goal, add_initial_effect; no call of an earlier group follows a call of
\* a later group.
C8_GroupOrder ==
    /\ \A i, j \in 1..Len(calls) : i < j => Rank(calls[i].op) <= Rank(calls[j].op)
    /\ Count({"create_symbol_table"}) <= 1
    /\ Count({"create_context"}) <= 1
    /\ Count({"add_goal"}) <= 1
    /\ (pc = "done" \/ \E i \in 1..Len(calls) : Rank(calls[i].op) > 2) =>
          Count({"create_symbol_table"}) = 1
    /\ (pc = "done" \/ \E i \in 1..Len(calls) : Rank(calls[i].op) > 4) =>
          Count({"create_context"}) = 1

\* from_htn returned after a call of every group.
C8_Witness ==
    /\ pc = "done"
    /\ \A op \in {"add_type", "add_constant_symbol", "add_predicate_symbol",
                  "add_function_symbol", "add_action_symbol", "add_task_symbol",
                  "add_method_symbol", "add_predicate", "add_function", "add_action",
                  "add_method", "add_goal", "add_initial_effect"} : Count({op}) >= 1

\* What a problem uses.
UsedTasks(problem) ==
    problem.D.Tp
        \cup {method.task : method \in problem.D.M}
        \cup UNION {Range(HtnTaskNetwork_tasks(method.task_network)) : method \in problem.D.M}
        \cup (IF problem.tn_I = None THEN {}
              ELSE Range(HtnTaskNetwork_tasks(problem.tn_I[1])))

UsedStateVariables(problem) ==
    UNION {{task.conditions[i].sv : i \in 1..Len(task.conditions)}
               \cup {task.effects[i].sv : i \in 1..Len(task.effects)} :
           task \in problem.D.Tp}
        \cup UNION {{method.conditions[i].sv : i \in 1..Len(method.conditions)} :
                    method \in problem.D.M}
        \cup {effect.sv : effect \in problem.s_I}

UsedParams(problem) ==
    UNION {Range(task.params) : task \in UsedTasks(problem)}
        \cup UNION {Range(sv.params) : sv \in UsedStateVariables(problem)}

\* A closed problem: its language holds every constant, variable,
\* state-variable symbol, primitive-task symbol and compound-task symbol the
\* problem uses, and every state variable is boolean or integer.
Closed(problem) ==
    /\ \A task \in UsedTasks(problem) :
          IF task.cls = "HtnPrimitiveTask"
          THEN Symbols_contains(problem.D.L.Prims, task.symbol)
          ELSE Symbols_contains(problem.D.L.Comps, task.symbol)
    /\ \A sv \in UsedStateVariables(problem) :
          /\ Symbols_contains(problem.D.L.StVars, sv.symbol)
          /\ sv.tpe \in {HTN_BOOLEAN, HTN_INTEGER}
    /\ \A param \in UsedParams(problem) :
          /\ param.cls = "HtnConstant" => TypedObjects_contains(problem.D.L.Csts, param)
          /\ param.cls = "HtnVariable" => TypedObjects_contains(problem.D.L.Vars, param)

OrderingErrors ==
    {"UnregisteredSymbolError", "UncreatedSymbolTableError", "UncreatedContextError"}

\* The counts C9 gives for the actions, the methods and the initial state.
ContentCounts ==
    /\ Count({"add_action"}) = Cardinality(htn_problem.D.Tp)
    /\ Count({"add_method"}) = Cardinality(htn_problem.D.M)
    /\ Count({"add_initial_effect"}) = Cardinality(htn_problem.s_I)

\* The one add_goal call carries one signature per label-mapping pair of tn_I.
OneGoal(tn_I) ==
    /\ Count({"add_goal"}) = 1
    /\ tn_I # None
    /\ \A i \in CallsOf(calls, {"add_goal"}) :
          Len(calls[i].args[1]) = Len(tn_I[1].label_mapping)

\* C9 as stated: on a closed problem from_htn never fails, and when it has
\* returned the builder has received one add_action per primitive task, one
\* add_method per method, one add_initial_effect per initial effect and exactly
\* one add_goal with one signature per label-mapping pair of tn_I.
C9_ClosedConversion ==
    Closed(htn_problem) =>
        /\ raised \notin OrderingErrors
        /\ pc # "failed"
        /\ pc = "done" => ContentCounts /\ OneGoal(htn_problem.tn_I)

\* C9 as amended: the same, with exactly one add_goal when the problem has an
\* initial task network and no add_goal when tn_I is None.
C9_ClosedConversionGoalIfAny ==
    Closed(htn_problem) =>
        /\ raised \notin OrderingErrors
        /\ pc # "failed"
        /\ pc = "done" =>
              /\ ContentCounts
              /\ IF htn_problem.tn_I = None
                 THEN Count({"add_goal"}) = 0
                 ELSE OneGoal(htn_problem.tn_I)

\* from_htn returned for a closed problem with two actions, a method, a goal
\* and two initial effects, one of them on a state variable only the initial
\* state uses.
C9_Witness ==
    /\ pc = "done"
    /\ Closed(htn_problem)
    /\ htn_problem.D.Tp = {p_move, p_move_idle}
    /\ htn_problem.D.M = {m_go}
    /\ htn_problem.tn_I = Some(goal)
    /\ htn_problem.s_I = {i_robot_loc0, i_fuel_R}

\* The signatures lowered from label_mapping tell two occurrences of one task
\* apart by the label alone: equal symbol and parameter entries, start and end
\* names that are the timepoint's value followed by the occurrence's label.
LabelsDistinguish(label_mapping, signatures) ==
    /\ Len(signatures) = Len(label_mapping)
    /\ \A i, j \in 1..Len(label_mapping) :
          (/\ i # j
           /\ Task_eq(label_mapping[i].task, label_mapping[j].task)
           /\ label_mapping[i].task.params = label_mapping[j].task.params
           /\ label_mapping[i].label # label_mapping[j].label) =>
              LET task == label_mapping[i].task
                  n == Len(signatures[i])
                  tail == " + 0 - " \o HtnType_name(HTN_TIMEPOINT)
              IN  /\ Len(signatures[j]) = n
                  /\ n = Len(task.params) + 3
                  /\ \A k \in 1..(n - 2) : signatures[i][k] = signatures[j][k]
                  /\ signatures[i][n - 1]
                        = task.interval.start.value \o label_mapping[i].label.value \o tail
                  /\ signatures[j][n - 1]
                        = task.interval.start.value \o label_mapping[j].label.value \o tail
                  /\ signatures[i][n]
                        = task.interval.end.value \o label_mapping[i].label.value \o tail
                  /\ signatures[j][n]
                        = task.interval.end.value \o label_mapping[j].label.value \o tail
                  /\ signatures[i][n - 1] # signatures[j][n - 1]
                  /\ signatures[i][n] # signatures[j][n]
                  /\ signatures[i] # signatures[j]

\* C10: when the task network of a method or the goal holds the same task
\* under two different labels, the two subtask signatures passed to add_method
\* or add_goal have the same symbol and parameter entries, differ exactly in
\* the label suffix of their start and end timepoint names, and are never
\* equal.
C10_LabelsDistinguish ==
    \A k \in 1..Len(calls) :
        /\ calls[k].op = "add_method" =>
              \A method \in htn_problem.D.M :
                  calls[k].args[1][1][1] = method.symbol.name =>
                      LabelsDistinguish(method.task_network.label_mapping, calls[k].args[5])
        /\ calls[k].op = "add_goal" =>
              LabelsDistinguish(htn_problem.tn_I[1].label_mapping, calls[k].args[1])

\* A method and a goal that both hold one task under two labels were lowered.
C10_Witness ==
    /\ Count({"add_method"}) = 1
    /\ Count({"add_goal"}) = 1
    /\ htn_problem.D.M = {m_go}
    /\ htn_problem.tn_I = Some(goal)
    /\ m_go.task_network.label_mapping[1].task = m_go.task_network.label_mapping[2].task
    /\ goal.label_mapping[1].task = goal.label_mapping[2].task


----------------------------------------------------------------------------
(* Claims about add_action (specification Spec).                           *)

\* An action with a constraint of its own and an effect.
p_move_late ==
    HtnPrimitiveTask(s_p_move, <<v_robot, v_to>>, DefaultInterval(9),
                     <<HtnConstraint(v_to, o_loc0, "!=")>>, <<>>,
                     <<HtnEffect(sv_at_robot_to, HTN_TRUE, DefaultInterval(10))>>)

\* [end, '>=', start + epsilon] on the interval, epsilon rendered as 1.
MinDurationEps(interval) ==
    <<interval.end.value \o " + 0 - " \o HtnType_name(HTN_TIMEPOINT), ">=",
      interval.start.value \o " + 1 - " \o HtnType_name(HTN_TIMEPOINT)>>

\* C11: add_action forwards the action's own constraints in their order,
\* followed by exactly one more constraint, [end, '>=', start + epsilon] on the
\* action's unlabelled interval, exactly when the action has an effect; an
\* action without effects is forwarded with its own constraints only, and the
\* action stored in the registry is the action as it was given.
C11_MinDurationInjected ==
    \A a \in ActionInputs \cup {p_move_late} :
        LET r == add_action(Enter, a)
            own == [i \in 1..Len(a.constraints) |-> get_constraint(a.constraints[i])]
        IN  (r.raised = "none" /\ ~ActionRegistered(a)) =>
                /\ Len(r.calls) = Len(calls) + 1
                /\ r.calls[Len(r.calls)].op = "add_action"
                /\ r.calls[Len(r.calls)].args[2]
                      = IF Len(a.effects) > 0
                        THEN Append(own, MinDurationEps(a.interval))
                        ELSE own
                /\ r.actions = actions \cup {a}

\* An action with an effect has been forwarded, and the action with both a
\* constraint and an effect is about to be.
C11_Witness ==
    /\ \E i \in 1..Len(calls) :
          /\ calls[i].op = "add_action"
          /\ calls[i].args[2] = <<MinDurationEps(p_move.interval)>>
    /\ add_action(Enter, p_move_late).raised = "none"
    /\ Len(add_action(Enter, p_move_late).calls) = Len(calls) + 1


----------------------------------------------------------------------------
(* htn.py: a sequential series of calls to HtnTemporalIntervalFactory      *)
(* (specification SpecFactory).                                            *)

\* No pipeline is at work.
PipelineIdle ==
    /\ Constructed
    /\ pc = "idle"
    /\ todo = {}
    /\ htn_problem = NoProblem

InitFactory == PipelineIdle /\ EntitiesIdle

\* A factory method returned made.
Minted(made) ==
    /\ Len(minted) < MaxIntervals
    /\ counter' = made.counter
    /\ minted' = Append(minted, made.interval)
    /\ UNCHANGED <<pipeline_vars, domain, inputs, result, frames>>

FactoryDefault == Minted(HtnTemporalIntervalFactory_default(counter))

FactoryAtStart == Minted(HtnTemporalIntervalFactory_at_start(counter))

FactoryAtEnd == Minted(HtnTemporalIntervalFactory_at_end(counter))

FactoryOverAll == Minted(HtnTemporalIntervalFactory_over_all(counter))

NextFactory ==
    \/ FactoryDefault
    \/ FactoryAtStart
    \/ FactoryAtEnd
    \/ FactoryOverAll

SpecFactory == InitFactory /\ [][NextFactory]_vars

\* The identifiers minted so far: start and end of every interval.
MintedIds == [i \in 1..(2 * Len(minted)) |->
                 IF i % 2 = 1 THEN minted[(i + 1) \div 2].start.value
                 ELSE minted[i \div 2].end.value]

\* C12: over a sequential series of calls to default, at_start, at_end and
\* over_all, each call advances the shared counter by exactly 2, the counter
\* never decreases, and the start and end identifiers minted over the whole
\* series are pairwise distinct.
C12_FactoryUnique ==
    /\ [][counter' = counter + 2]_vars
    /\ [](\A i, j \in 1..Len(MintedIds) : i # j => MintedIds[i] # MintedIds[j])

\* Each of the four methods has been called once.
C12_Witness ==
    /\ Len(minted) = 4
    /\ {<<minted[i].start.value, minted[i].end.value>> : i \in 1..4}
          = {<<"__d__0", "__d__1">>, <<"__s__2", "__s__3">>, <<"__e__4", "__e__5">>,
             <<"__s__6", "__e__7">>}


----------------------------------------------------------------------------
(* htn.py: HtnEntity.  Python objects live on a heap, a sequence of        *)
(* [kind, v] whose indices are the references: an entity is an object of   *)
(* the kind of its class whose v is its __dict__, attribute name to        *)
(* reference; a set, a tuple, a list, a dict (a function), an int or a     *)
(* bool holds its value in v.                                              *)

Object(kind, v) == [kind |-> kind, v |-> v]

\* The fields of the dataclass MockHtnEntity, in the order of its __dict__.
MockHtnEntity_fields ==
    <<"set_attr", "bool_attr", "int_attr", "tuple_attr", "list_attr", "dict_attr">>

\* deepcopy(d) for the __dict__ d of an entity: every set, list and dict it
\* refers to is copied to a new object, an immutable value is shared.
deepcopy(heap, d) ==
    LET copied(a) == a \in DOMAIN d /\ heap[d[a]].kind \in {"set", "list", "dict"}
        copies == SelectSeq(MockHtnEntity_fields, copied)
        place(a) == CHOOSE j \in 1..Len(copies) : copies[j] = a
    IN  [heap |-> heap \o [j \in 1..Len(copies) |-> heap[d[copies[j]]]],
         value |-> [a \in DOMAIN d |-> IF copied(a) THEN Len(heap) + place(a) ELSE d[a]]]

\* Variant of __get_attributes that copies the __dict__ but not the objects it
\* refers to; C17 fails under it.
HtnEntity_get_attributes_shallow(heap, self) == [heap |-> heap, value |-> heap[self].v]

HtnEntity_get_attributes(heap, self) == deepcopy(heap, heap[self].v)

\* The call of self.__class__ with the attributes as keywords: the generated
\* __init__ takes the fields of the dataclass and nothing else.
HtnEntity_new(heap, cls, attributes) ==
    IF DOMAIN attributes # Range(MockHtnEntity_fields)
    THEN [raised |-> "TypeError", heap |-> heap, value |-> None]
    ELSE [raised |-> "none", heap |-> Append(heap, Object(cls, attributes)),
          value |-> Some(Len(heap) + 1)]

\* attributes.update with attrs as keywords.
Updated(attributes, attrs) ==
    [a \in DOMAIN attributes \cup DOMAIN attrs |->
        IF a \in DOMAIN attrs THEN attrs[a] ELSE attributes[a]]

HtnEntity_copy_with(heap, self, attrs_to_override) ==
    LET attributes == HtnEntity_get_attributes(heap, self)
    IN  HtnEntity_new(attributes.heap, heap[self].kind,
                      Updated(attributes.value, attrs_to_override))

\* The loop of copy_and_extend_with over the items named in names; the values
\* given are of the kind of the attribute they extend.
RECURSIVE HtnEntity_extend(_, _, _, _)
HtnEntity_extend(heap, attributes, attrs_to_extend, names) ==
    IF names = <<>> THEN [heap |-> heap, value |-> attributes]
    ELSE LET attr_name == Head(names)
             attr_value == heap[attrs_to_extend[attr_name]]
             current == attributes[attr_name]
             replaced == [a \in DOMAIN attributes \cup {attr_name} |->
                             IF a = attr_name THEN attrs_to_extend[attr_name]
                             ELSE attributes[a]]
         IN  IF attr_name \notin DOMAIN attributes
             THEN HtnEntity_extend(heap, replaced, attrs_to_extend, Tail(names))
             ELSE IF heap[current].kind = "set"
             THEN HtnEntity_extend(
                      [heap EXCEPT ![current].v = @ \cup attr_value.v],
                      attributes, attrs_to_extend, Tail(names))
             ELSE IF heap[current].kind = "dict"
             THEN HtnEntity_extend(
                      [heap EXCEPT ![current].v = Updated(@, attr_value.v)],
                      attributes, attrs_to_extend, Tail(names))
             ELSE IF heap[current].kind \in {"tuple", "list"}
             THEN HtnEntity_extend(
                      Append(heap, Object(heap[current].kind, heap[current].v \o attr_value.v)),
                      [attributes EXCEPT ![attr_name] = Len(heap) + 1],
                      attrs_to_extend, Tail(names))
             ELSE HtnEntity_extend(heap, replaced, attrs_to_extend, Tail(names))

\* Variant of copy_and_extend_with that overrides every named attribute;
\* C18 fails under it.
HtnEntity_copy_and_override_with(heap, self, attrs_to_extend, names) ==
    LET attributes == HtnEntity_get_attributes(heap, self)
    IN  HtnEntity_new(attributes.heap, heap[self].kind,
                      Updated(attributes.value, attrs_to_extend))

\* names is the order of the keyword arguments.
HtnEntity_copy_and_extend_with(heap, self, attrs_to_extend, names) ==
    LET attributes == HtnEntity_get_attributes(heap, self)
        extended == HtnEntity_extend(attributes.heap, attributes.value, attrs_to_extend, names)
    IN  HtnEntity_new(extended.heap, heap[self].kind, extended.value)

----------------------------------------------------------------------------
(* htn.py: calls on entities and factories that keep no state              *)
(* (specification SpecEntity). inputs is the last call and result what it  *)
(* returned or raised.                                                     *)

InitEntity == PipelineIdle /\ EntitiesIdle

\* One call is made; it changes nothing but inputs and result.
Returned ==
    /\ inputs = NoCall
    /\ UNCHANGED <<pipeline_vars, counter, minted, domain, frames>>

v_flag == HtnVariable("?f", HTN_BOOLEAN)

t_var == HtnTimepoint("?t")

\* Intervals as the library builds them: a default one, an at-start one, an
\* at-end one shifted by epsilon (dirac_at_end), and [?t, ?t + 5].
IntervalInputs ==
    {DefaultInterval(0),
     HtnTemporalIntervalFactory_at_start(2).interval,
     HtnTemporalInterval_add(HtnTemporalIntervalFactory_at_end(4).interval, HTN_EPSILON),
     HtnTemporalInterval(t_var, HtnTimepoint_add(t_var, FloatOfInt(5)))}

Dirac ==
    \E sv \in {sv_at_robot_to, sv_at_robot_loc0, sv_fuel_robot, sv_at_robot},
       value \in {HTN_TRUE, HTN_FALSE, v_flag}, interval \in IntervalInputs :
        /\ Returned
        /\ inputs' = [op |-> "dirac", args |-> <<sv, value, interval>>]
        /\ result' = HtnEffectFactory_dirac(sv, value, interval)

\* Operands of a comparison: two timepoints, a variable and a constant.
OperandInputs == {t_var, HtnTimepoint_add(HtnTask_start(c_go), FloatOfInt(5)), v_to, o_loc0}

LabelInputs == {None, Some(l_0), Some(l_1)}

Compare ==
    \E left \in OperandInputs, right \in OperandInputs,
       lab_left \in LabelInputs, lab_right \in LabelInputs :
        LET args == <<left, right, lab_left, lab_right>> IN
        \/ /\ Returned
           /\ inputs' = [op |-> "eq", args |-> args]
           /\ result' = HtnConstraintFactory_eq(left, right, lab_left, lab_right)
        \/ /\ Returned
           /\ inputs' = [op |-> "neq", args |-> args]
           /\ result' = HtnConstraintFactory_neq(left, right, lab_left, lab_right)
        \/ /\ Returned
           /\ inputs' = [op |-> "lt", args |-> args]
           /\ result' = HtnConstraintFactory_lt(left, right, lab_left, lab_right)
        \/ /\ Returned
           /\ inputs' = [op |-> "le", args |-> args]
           /\ result' = HtnConstraintFactory_le(left, right, lab_left, lab_right)
        \/ /\ Returned
           /\ inputs' = [op |-> "gt", args |-> args]
           /\ result' = HtnConstraintFactory_gt(left, right, lab_left, lab_right)
        \/ /\ Returned
           /\ inputs' = [op |-> "ge", args |-> args]
           /\ result' = HtnConstraintFactory_ge(left, right, lab_left, lab_right)

\* Parameter tuples over a variable and two constants, repeats included.
ParamInputs == {<<p, q>> : p \in {v_to, o_loc0, o_robot}, q \in {v_to, o_loc0, o_robot}}

\* sv == other for two state variables.
StateVariableEq ==
    \E symbol \in {s_sv_at, s_sv_fuel}, ps \in ParamInputs, qs \in ParamInputs :
        LET sv == HtnStateVariable(s_sv_at, ps, HTN_BOOLEAN)
            other == HtnStateVariable(symbol, qs, HTN_BOOLEAN)
        IN  /\ Returned
            /\ inputs' = [op |-> "sv_eq", args |-> <<sv, other>>]
            /\ result' = [raised |-> "none", value |-> Some(HtnStateVariable_eq(sv, other))]

\* task == other for two compound tasks.
TaskEq ==
    \E k \in {3, 4}, ps \in ParamInputs, qs \in ParamInputs :
        LET task == HtnCompoundTask(s_c_go, ps, DefaultInterval(3))
            other == HtnCompoundTask(s_c_go, qs, DefaultInterval(k))
        IN  /\ Returned
            /\ inputs' = [op |-> "task_eq", args |-> <<task, other>>]
            /\ result' = [raised |-> "none", value |-> Some(Task_eq(task, other))]

\* A MockHtnEntity whose fields are the objects after base, in order.
MockHtnEntity(base) ==
    Object("MockHtnEntity",
           [a \in Range(MockHtnEntity_fields) |->
               base + (CHOOSE i \in 1..Len(MockHtnEntity_fields) : MockHtnEntity_fields[i] = a)])

\* The heap of tests/htn_entity_test.py: the attributes of entity (1..6) and
\* entity itself (7), the values the test passes (8..13), a value for an
\* attribute MockHtnEntity has not (14), and an entity of empty collections (21).
HeapInput ==
    <<Object("set", {"foo"}), Object("bool", TRUE), Object("int", 1),
      Object("tuple", <<1, 2>>), Object("list", <<1, 2>>), Object("dict", [k \in {"1"} |-> 1]),
      MockHtnEntity(0),
      Object("set", {"bar", "foo"}), Object("bool", FALSE), Object("int", 2),
      Object("tuple", <<3, 4>>), Object("list", <<3, 4>>),
      Object("dict", [k \in {"1", "2"} |-> IF k = "1" THEN 5 ELSE 2]),
      Object("int", 0),
      Object("set", {}), Object("bool", FALSE), Object("int", 0),
      Object("tuple", <<>>), Object("list", <<>>), Object("dict", [k \in {} |-> 0]),
      MockHtnEntity(14)>>

EntityInputs == {7, 21}

\* The keyword arguments, in the order the test names them.
KeywordInputs ==
    <<"set_attr", "tuple_attr", "list_attr", "dict_attr", "int_attr", "bool_attr",
      "name_attr">>

\* The value passed for each keyword.
Passed(names) ==
    [a \in names |->
        CASE a = "set_attr" -> 8 [] a = "bool_attr" -> 9 [] a = "int_attr" -> 10
          [] a = "tuple_attr" -> 11 [] a = "list_attr" -> 12 [] a = "dict_attr" -> 13
          [] a = "name_attr" -> 14]

\* e.copy_with, twice with the same keywords.
CopyWith ==
    \E self \in EntityInputs, names \in SUBSET Range(KeywordInputs) :
        LET first == HtnEntity_copy_with(HeapInput, self, Passed(names))
            second == HtnEntity_copy_with(first.heap, self, Passed(names))
        IN  /\ Returned
            /\ inputs' = [op |-> "copy_with", args |-> <<HeapInput, self, Passed(names)>>]
            /\ result' = [raised |-> second.raised, heap |-> second.heap,
                          value |-> second.value, first |-> first.value]

CopyAndExtendWith ==
    \E self \in EntityInputs, names \in SUBSET Range(KeywordInputs) :
        LET named(a) == a \in names IN
        /\ Returned
        /\ inputs' = [op |-> "copy_and_extend_with", args |-> <<HeapInput, self, Passed(names)>>]
        /\ result' = HtnEntity_copy_and_extend_with(HeapInput, self, Passed(names),
                      SelectSeq(KeywordInputs, named))

\* Offsets in tenths: 0, 0.1, 0.2, 0.3, 0.5, 0.7, 1 and 5, and the negated ones.
OffsetInputs ==
    {FloatDiv(n, HTN_TIME_SCALE) : n \in {0, 1, 2, 3, 5, 7, 10, 50}}
        \cup {FloatNeg(FloatDiv(n, HTN_TIME_SCALE)) : n \in {1, 5}}

\* (t + a) + b, t + (a + b), t + a, t - a and t + (-a), for t = ?t + delay.
TimepointAdd ==
    \E delay \in {FloatZero, HTN_EPSILON}, a \in OffsetInputs, b \in OffsetInputs :
        LET t == HtnTimepoint_add(t_var, delay) IN
        /\ Returned
        /\ inputs' = [op |-> "add", args |-> <<t, a, b>>]
        /\ result' = [raised |-> "none",
                      value |-> <<HtnTimepoint_add(HtnTimepoint_add(t, a), b),
                                  HtnTimepoint_add(t, FloatAdd(a, b)),
                                  HtnTimepoint_add(t, a),
                                  HtnTimepoint_sub(t, a),
                                  HtnTimepoint_add(t, FloatNeg(a))>>]

\* get_timepoint of ?t + n / 10.
GetTimepoint ==
    \E n \in 0..MaxDelaySteps, htn_label \in {None, Some(l_0)} :
        LET t == HtnTimepoint_add(t_var, FloatDiv(n, 10)) IN
        /\ Returned
        /\ inputs' = [op |-> "get_timepoint", args |-> <<t, htn_label, n>>]
        /\ result' = [raised |-> "none", value |-> get_timepoint(t, htn_label)]

\* The timepoints the factory mints first and after five intervals, and one
\* the user names.
TimepointInputs ==
    {t_var} \cup UNION {{HtnTemporalIntervalFactory_default(count).interval.start,
                         HtnTemporalIntervalFactory_default(count).interval.end} :
                            count \in {0, 10}}

\* A label is any string the user chooses.
TimepointLabelInputs == LabelInputs \cup {Some(HtnLabel("1"))}

\* get_timepoint of two timepoints, each under a label or under none.
GetTimepoints ==
    \E a \in TimepointInputs, b \in TimepointInputs,
       lab_a \in TimepointLabelInputs, lab_b \in TimepointLabelInputs :
        /\ Returned
        /\ inputs' = [op |-> "get_timepoints", args |-> <<a, lab_a, b, lab_b>>]
        /\ result' = [raised |-> "none",
                      value |-> <<get_timepoint(a, lab_a), get_timepoint(b, lab_b)>>]

\* A task whose conditions and effects name the robot three times and one
\* state variable twice, and a task that repeats a parameter.
p_check ==
    HtnPrimitiveTask(s_p_move, <<v_to>>, DefaultInterval(15), <<>>,
                     <<HtnCondition(sv_fuel_robot, HtnConstant("1", HTN_INTEGER),
                                    DefaultInterval(16)),
                       HtnCondition(sv_at_robot_to, HTN_FALSE, DefaultInterval(17))>>,
                     <<HtnEffect(sv_at_robot_to, HTN_TRUE, DefaultInterval(18))>>)

p_spin ==
    HtnPrimitiveTask(s_p_move, <<v_robot, v_robot>>, DefaultInterval(19), <<>>, <<>>,
                     <<HtnEffect(sv_at_robot_loc0, HTN_TRUE, DefaultInterval(20))>>)

\* The order of the state variables decides the order of the parameters.
p_drop ==
    HtnPrimitiveTask(s_p_move, <<v_robot>>, DefaultInterval(21), <<>>, <<>>,
                     <<HtnEffect(sv_at_robot_to, HTN_FALSE, DefaultInterval(22)),
                       HtnEffect(sv_at_robot_loc0, HTN_TRUE, DefaultInterval(23))>>)

AllParamsInputs == {p_move, p_move_idle, p_drop, p_check, p_spin}

\* task.all_params and get_signature(task), on a pipeline that knows the
\* symbol of the task.
AllParams ==
    \E task \in AllParamsInputs :
        \E svs \in Orderings(StateVariables_update({}, HtnPrimitiveTask_state_variables(task))) :
            LET all_params == HtnPrimitiveTask_all_params(task, svs)
                self == create_symbol_table(
                            add_symbol(ChroniclesProblem_init, task.symbol, "ACTION", None))
            IN  /\ Returned
                /\ inputs' = [op |-> "all_params", args |-> <<task, svs>>]
                /\ result' = [raised |-> "none",
                              value |-> <<all_params,
                                          get_signature(self, task.symbol, all_params)>>]

NextEntity ==
    \/ Dirac
    \/ GetTimepoints
    \/ AllParams
    \/ Compare
    \/ StateVariableEq
    \/ TaskEq
    \/ CopyWith
    \/ CopyAndExtendWith
    \/ TimepointAdd
    \/ GetTimepoint

SpecEntity == InitEntity /\ [][NextEntity]_vars

----------------------------------------------------------------------------
(* Claims about the effect and constraint factories (specification         *)
(* SpecEntity).                                                            *)

\* The value the claim names the logical negation of TRUE and of FALSE.
Negation(value) == IF value = HTN_TRUE THEN HTN_FALSE ELSE HTN_TRUE

\* The same timepoint, epsilon earlier.
Earlier(t) == [t EXCEPT !.delay = FloatAdd(t.delay, FloatNeg(FloatDiv(1, 10)))]

\* C13, as the specification states it: for a boolean state variable sv,
\* dirac(sv, value, interval) returns (effect_before, effect_after) where
\* effect_before assigns value to sv on [interval.start, interval.end - epsilon]
\* and effect_after assigns the negation of value on interval unshifted.
C13_DiracEndShifted ==
    (/\ inputs.op = "dirac"
     /\ inputs.args[1].tpe = HTN_BOOLEAN
     /\ inputs.args[2] \in {HTN_TRUE, HTN_FALSE})
    => LET sv == inputs.args[1]
           value == inputs.args[2]
           interval == inputs.args[3]
       IN  /\ result.raised = "none"
           /\ result.value =
                 Some(<<HtnEffect(sv, value,
                                  HtnTemporalInterval(interval.start, Earlier(interval.end))),
                        HtnEffect(sv, Negation(value), interval)>>)

\* C13, amended: for a boolean state variable sv, dirac(sv, value, interval)
\* returns (effect_before, effect_after) where effect_before assigns value to
\* sv on the whole interval moved epsilon earlier,
\* [interval.start - epsilon, interval.end - epsilon], and effect_after assigns
\* the negation of value on interval unshifted; interval itself is unchanged.
C13_DiracShifted ==
    (/\ inputs.op = "dirac"
     /\ inputs.args[1].tpe = HTN_BOOLEAN
     /\ inputs.args[2] \in {HTN_TRUE, HTN_FALSE})
    => LET sv == inputs.args[1]
           value == inputs.args[2]
           interval == inputs.args[3]
       IN  /\ result.raised = "none"
           /\ result.value =
                 Some(<<HtnEffect(sv, value,
                                  HtnTemporalInterval(Earlier(interval.start),
                                                      Earlier(interval.end))),
                        HtnEffect(sv, Negation(value), interval)>>)

\* dirac returned a pair for FALSE on the at-end interval shifted by epsilon.
C13_Witness ==
    /\ inputs.op = "dirac"
    /\ inputs.args[1] = sv_at_robot_to
    /\ inputs.args[2] = HTN_FALSE
    /\ inputs.args[3].start.delay = FloatDiv(1, 10)
    /\ result.raised = "none"
    /\ result.value[1][1].interval.start.delay = FloatZero
    /\ result.value[1][2].value = HTN_TRUE

\* The relation each comparison stands for.
RelationOf(op) ==
    CASE op = "eq" -> "==" [] op = "neq" -> "!=" [] op = "lt" -> "<"
      [] op = "le" -> "<=" [] op = "gt" -> ">" [] op = "ge" -> ">="

\* C14: eq, neq, lt, le, gt and ge return an HtnTemporalConstraint carrying the
\* given left and right labels when both operands are timepoints, and an
\* unlabelled HtnConstraint when neither operand is a timepoint; they raise
\* ConstraintArgumentError, building nothing, when exactly one operand is a
\* timepoint or when a label is supplied with non-timepoint operands.
C14_ConstraintKinds ==
    inputs.op \in {"eq", "neq", "lt", "le", "gt", "ge"}
    => LET left == inputs.args[1]
           right == inputs.args[2]
           lab_left == inputs.args[3]
           lab_right == inputs.args[4]
           temporal(o) == o.cls \in TimepointClasses
           refused == \/ temporal(left) # temporal(right)
                      \/ /\ ~temporal(left)
                         /\ ~temporal(right)
                         /\ (lab_left # None \/ lab_right # None)
       IN  IF refused
           THEN result.raised = "ConstraintArgumentError" /\ result.value = None
           ELSE /\ result.raised = "none"
                /\ result.value[1].left = left
                /\ result.value[1].right = right
                /\ result.value[1].relation = RelationOf(inputs.op)
                /\ IF temporal(left)
                   THEN /\ result.value[1].cls = "HtnTemporalConstraint"
                        /\ result.value[1].left_label = lab_left
                        /\ result.value[1].right_label = lab_right
                   ELSE /\ result.value[1].cls = "HtnConstraint"
                        /\ result.value[1].left_label = None
                        /\ result.value[1].right_label = None

\* A label given with two plain operands was refused.
C14_Witness ==
    /\ inputs.op = "neq"
    /\ inputs.args = <<v_to, o_loc0, Some(l_0), None>>
    /\ result.raised = "ConstraintArgumentError"

----------------------------------------------------------------------------
(* Claims about the equality of parametric symbols (specification          *)
(* SpecEntity).                                                            *)

\* Every parameter of ps has an equal one in qs, and the other way round.
SameParamSet(ps, qs) ==
    /\ \A i \in 1..Len(ps) : \E j \in 1..Len(qs) : TypedObject_eq(ps[i], qs[j])
    /\ \A j \in 1..Len(qs) : \E i \in 1..Len(ps) : TypedObject_eq(qs[j], ps[i])

\* C15: two state variables, or two tasks with equal intervals, with equal
\* symbols compare equal if and only if their parameter sets match whatever
\* the order: every parameter of each side has an equal one on the other side.
\* In particular a state variable or a task equals itself with its parameters
\* permuted.
C15_ParamSetsDecide ==
    (/\ inputs.op \in {"sv_eq", "task_eq"}
     /\ HtnSymbol_eq(inputs.args[1].symbol, inputs.args[2].symbol)
     /\ inputs.op = "task_eq"
           => HtnTemporalInterval_eq(inputs.args[1].interval, inputs.args[2].interval))
    => result.value = Some(SameParamSet(inputs.args[1].params, inputs.args[2].params))

----------------------------------------------------------------------------
(* htn.py: a domain filled by add_task and add_method (specification       *)
(* SpecDomain).                                                            *)

\* A task moving ?r: where to, and the constant it leaves, are parameters of
\* its effects only.
p_leave ==
    HtnPrimitiveTask(s_p_move, <<v_robot>>, DefaultInterval(11), <<>>, <<>>,
                     <<HtnEffect(sv_at_robot_to, HTN_TRUE, DefaultInterval(12)),
                       HtnEffect(sv_at_robot_loc0, HTN_FALSE, DefaultInterval(13))>>)

m_go_fuel ==
    HtnMethod(c_go_robot_loc0,
              HtnTaskNetwork(<<HtnLabelMappingPair(l_1, p_move)>>, <<>>), <<>>,
              <<HtnCondition(sv_fuel_robot, HtnConstant("1", HTN_INTEGER), DefaultInterval(14))>>,
              HtnSymbol("HtnMethodSymbol", "m-go-fuel"))

InitDomain ==
    /\ PipelineIdle
    /\ counter = 0
    /\ minted = <<>>
    /\ inputs = NoCall
    /\ result = NoCall
    /\ frames = <<>>
    /\ domain = HtnDomain(HtnLanguage({}, {}, {}, {}, {}, {}), {}, {}, {})

d_empty == HtnDomain(HtnLanguage({}, {}, {}, {}, {}, {}), {}, {}, {})

o_loc1 == HtnConstant("L1", t_location)

\* The domains merged into the one under construction.
d_fuel ==
    HtnDomain_add_method(
        [d_empty EXCEPT !.L = HtnLanguage_add_typed_object(@, o_loc1).L], m_go_fuel)

d_go == HtnDomain_add_task(d_empty, c_go)

OtherDomains == {d_fuel, d_go}

\* domain.L.add_typed_object: a timepoint is refused.
LanguageAddTypedObject ==
    \E typed_object \in {v_to, o_loc0, t_var} :
        /\ domain' = [domain EXCEPT !.L = HtnLanguage_add_typed_object(@, typed_object).L]
        /\ UNCHANGED <<pipeline_vars, counter, minted, inputs, result, frames>>

DomainMerge ==
    \E other \in OtherDomains :
        /\ domain' = HtnDomain_merge(domain, other).self
        /\ UNCHANGED <<pipeline_vars, counter, minted, inputs, result, frames>>

DomainAddTask ==
    \E task \in {p_move, p_move_idle, p_move_late, p_leave, c_go, c_go_robot_loc0} :
        /\ domain' = HtnDomain_add_task(domain, task)
        /\ UNCHANGED <<pipeline_vars, counter, minted, inputs, result, frames>>

DomainAddMethod ==
    \E method \in {m_go, m_go_fuel} :
        /\ domain' = HtnDomain_add_method(domain, method)
        /\ UNCHANGED <<pipeline_vars, counter, minted, inputs, result, frames>>

NextDomain ==
    \/ DomainAddTask
    \/ LanguageAddTypedObject
    \/ DomainMerge
    \/ DomainAddMethod

SpecDomain == InitDomain /\ [][NextDomain]_vars

\* The tasks the claim reaches from Tp, Tc and M, and the state variables of
\* their conditions and effects.
ReachedTasks(D) ==
    D.Tp \cup D.Tc \cup {method.task : method \in D.M}
        \cup UNION {Range(HtnTaskNetwork_tasks(method.task_network)) : method \in D.M}

ReachedStateVariables(D) ==
    UNION {Range(HtnPrimitiveTask_state_variables(task)) :
              task \in {t \in ReachedTasks(D) : t.cls = "HtnPrimitiveTask"}}
        \cup UNION {HtnMethod_state_variables(method) : method \in D.M}

\* C16: after any sequence of add_task and add_method from an empty domain,
\* the language holds the symbol of every task of Tp and Tc and of every
\* method's task, every label of every method's network, every state-variable
\* symbol used by conditions and effects, and every variable and constant that
\* is a parameter of those tasks or of the state variables of their conditions
\* and effects.
C16_LanguageClosed ==
    LET L == domain.L IN
    /\ \A task \in ReachedTasks(domain) :
          Symbols_contains(L.Prims \cup L.Comps, task.symbol)
    /\ \A method \in domain.M :
          \A i \in 1..Len(method.task_network.label_mapping) :
              method.task_network.label_mapping[i].label \in L.Labs
    /\ \A sv \in ReachedStateVariables(domain) : Symbols_contains(L.StVars, sv.symbol)
    /\ \A p \in ReachedTasks(domain) \cup ReachedStateVariables(domain) :
          \A i \in 1..Len(p.params) :
              TypedObjects_contains(L.Vars \cup L.Csts, p.params[i])

----------------------------------------------------------------------------
(* Claims about HtnEntity (specification SpecEntity).                      *)

\* The dataclass __eq__ of two entities on a heap: same class, equal fields.
Entity_eq(heap, x, y) ==
    /\ heap[x].kind = heap[y].kind
    /\ \A a \in DOMAIN heap[x].v : heap[heap[x].v[a]] = heap[heap[y].v[a]]

\* The call names attributes of the entity only.
NamesFields == DOMAIN inputs.args[3] \subseteq DOMAIN inputs.args[1][inputs.args[2]].v

\* C17: copy_with and copy_and_extend_with return a new entity and leave e,
\* its set, list, tuple and mapping attributes included, equal to its value
\* before the call; two calls e.copy_with(a=x) with the same arguments return
\* equal entities.
C17_CopyLeavesOriginal ==
    (inputs.op \in {"copy_with", "copy_and_extend_with"} /\ NamesFields)
    => LET before == inputs.args[1]
           e == inputs.args[2]
           after == result.heap
       IN  /\ result.raised = "none"
           /\ result.value[1] \notin 1..Len(before)
           /\ after[e] = before[e]
           /\ \A a \in DOMAIN before[e].v : after[before[e].v[a]] = before[before[e].v[a]]
           /\ inputs.op = "copy_with"
                 => /\ result.first[1] # result.value[1]
                    /\ Entity_eq(after, result.first[1], result.value[1])

\* entity was extended by a set, and copied twice with a new set.
C17_Witness ==
    /\ inputs.op \in {"copy_with", "copy_and_extend_with"}
    /\ inputs.args[2] = 7
    /\ "set_attr" \in DOMAIN inputs.args[3]
    /\ result.raised = "none"
    /\ result.heap[result.heap[result.value[1]].v["set_attr"]].v = {"foo", "bar"}

\* C18: copy_and_extend_with returns an entity in which every named attribute
\* that is a set or a mapping is the union of the old value and the given one,
\* every named attribute that is a tuple or a list is the old sequence followed
\* by the given one, every other named attribute is the given value, and every
\* attribute not named equals the original's.
C18_Extended ==
    (inputs.op = "copy_and_extend_with" /\ NamesFields)
    => LET before == inputs.args[1]
           e == inputs.args[2]
           kwargs == inputs.args[3]
           after == result.heap
       IN  /\ result.raised = "none"
           /\ \A a \in DOMAIN before[e].v :
                 LET old == before[before[e].v[a]]
                     new == after[after[result.value[1]].v[a]]
                 IN  IF a \notin DOMAIN kwargs THEN new = old
                     ELSE LET given == before[kwargs[a]] IN
                          /\ new.kind = old.kind
                          /\ CASE old.kind = "set" -> new.v = old.v \cup given.v
                               [] old.kind = "dict" ->
                                    /\ DOMAIN new.v = DOMAIN old.v \cup DOMAIN given.v
                                    /\ \A k \in DOMAIN given.v : new.v[k] = given.v[k]
                                    /\ \A k \in DOMAIN old.v \ DOMAIN given.v :
                                          new.v[k] = old.v[k]
                               [] old.kind \in {"tuple", "list"} -> new.v = old.v \o given.v
                               [] OTHER -> new.v = given.v

\* The call of the test: five attributes named, bool_attr kept.
C18_Witness ==
    /\ inputs.op = "copy_and_extend_with"
    /\ inputs.args[2] = 7
    /\ DOMAIN inputs.args[3] =
          {"set_attr", "tuple_attr", "list_attr", "dict_attr", "int_attr"}
    /\ result.raised = "none"
    /\ LET attr(a) == result.heap[result.heap[result.value[1]].v[a]].v
       IN  /\ attr("set_attr") = {"foo", "bar"}
           /\ attr("bool_attr") = TRUE
           /\ attr("int_attr") = 2
           /\ attr("tuple_attr") = <<1, 2, 3, 4>>
           /\ attr("list_attr") = <<1, 2, 3, 4>>
           /\ attr("dict_attr") = [k \in {"1", "2"} |-> IF k = "1" THEN 5 ELSE 2]

----------------------------------------------------------------------------
(* Claims about timepoints (specification SpecEntity).                     *)

\* C19: timepoint addition is associative on the delay: for every timepoint t
\* and offsets a and b, (t + a) + b == t + (a + b); t + a has the value and the
\* type of t and the delay t.delay + a, and t - a equals t + (-a).
C19_AddAssociative ==
    inputs.op = "add"
    => LET t == inputs.args[1]
           a == inputs.args[2]
       IN  /\ HtnTimepoint_eq(result.value[1], result.value[2])
           /\ result.value[3].value = t.value
           /\ result.value[3].tpe = t.tpe
           /\ result.value[3].delay = FloatAdd(t.delay, a)
           /\ HtnTimepoint_eq(result.value[4], result.value[5])

\* C20: get_timepoint lowers a timepoint of value v, delay d and optional
\* label L to "<v><L> + <k> - __timepoint__" where k = int(d * 10): the delay
\* n / 10 gives k = n, so 0 gives 0, 0.5 gives 5 and 5 gives 50.
C20_DelayInSteps ==
    inputs.op = "get_timepoint"
    => LET v == inputs.args[1].value
           L == IF inputs.args[2] = None THEN "" ELSE inputs.args[2][1].value
           n == inputs.args[3]
       IN  result.value = v \o L \o " + " \o ToString(n) \o " - __timepoint__"

\* The delay 0.5 was lowered under the label l0, and so was the delay 5.
C20_Witness ==
    /\ inputs.op = "get_timepoint"
    /\ inputs.args[3] \in {5, 50}
    /\ inputs.args[2] = Some(l_0)
    /\ result.value \in {"?tl0 + 5 - __timepoint__", "?tl0 + 50 - __timepoint__"}

----------------------------------------------------------------------------
(* Claims about calls that raise (specification Spec).                     *)

\* The self a repeated call starts from after the call that left r behind.
Again(r) == [r EXCEPT !.raised = "none"]

\* C21: in every reachable state, if add_symbol, add_state_variable,
\* add_action, add_method or add_initial_effect raises, its registry is as it
\* was before the call and the same call made again raises the same error.
C21_FailureAtomic ==
    /\ \A i \in SymbolInputs :
          LET r == add_symbol(Enter, i[1], i[2], i[3])
          IN  r.raised # "none" =>
                  /\ r.symbols = symbols
                  /\ add_symbol(Again(r), i[1], i[2], i[3]).raised = r.raised
    /\ \A sv \in StateVariableInputs :
          LET r == add_state_variable(Enter, sv)
          IN  r.raised # "none" =>
                  /\ r.state_variables = state_variables
                  /\ add_state_variable(Again(r), sv).raised = r.raised
    /\ \A a \in ActionInputs :
          LET r == add_action(Enter, a)
          IN  r.raised # "none" =>
                  /\ r.actions = actions
                  /\ add_action(Again(r), a).raised = r.raised
    /\ \A m \in MethodInputs :
          \A all_params \in Orderings(HtnMethod_all_params(m)) :
              LET r == add_method(Enter, m, all_params)
              IN  r.raised # "none" =>
                      /\ r.methods = methods
                      /\ add_method(Again(r), m, all_params).raised = r.raised
    /\ \A e \in EffectInputs :
          LET r == add_initial_effect(Enter, e)
          IN  r.raised # "none" =>
                  /\ r.initial_effects = initial_effects
                  /\ add_initial_effect(Again(r), e).raised = r.raised

----------------------------------------------------------------------------
(* Claims about the symbols forwarded to the builder (specification Spec). *)

\* The builder call that declares a symbol of a kind.
SymbolOp(symbol_type) ==
    IF symbol_type = "ACTION" THEN "add_action_symbol"
    ELSE IF symbol_type = "CONSTANT" THEN "add_constant_symbol"
    ELSE IF symbol_type = "METHOD" THEN "add_method_symbol"
    ELSE IF symbol_type = "PREDICATE" THEN "add_predicate_symbol"
    ELSE IF symbol_type = "FUNCTION" THEN "add_function_symbol"
    ELSE "add_task_symbol"

Forwarded(cs, symbol_type, name) ==
    \E k \in 1..Len(cs) : cs[k].op = SymbolOp(symbol_type) /\ cs[k].args[1] = Str(name)

\* The symbols add_symbol is probed with: those of the pipeline, and an action
\* and a constant that bear the name of the task go.
SymbolProbes ==
    SymbolInputs \cup {<<HtnSymbol("HtnPrimitiveTaskSymbol", "go"), "ACTION", None>>}

ConstantProbes == ConstantInputs \cup {HtnConstant("go", t_location)}

\* C22: in every reachable state, when add_symbol(s, kind) returns normally
\* the builder has received the add_<kind>_symbol call for s.name, and when
\* add_constant(c) returns normally it has received add_constant_symbol for
\* the name of c, whatever was registered under that name before.
C22_SymbolForwarded ==
    /\ \A i \in SymbolProbes :
          LET r == add_symbol(Enter, i[1], i[2], i[3])
          IN  r.raised = "none" => Forwarded(r.calls, i[2], i[1].name)
    /\ \A c \in ConstantProbes :
          LET r == add_constant(Enter, c)
          IN  r.raised = "none" => Forwarded(r.calls, "CONSTANT", c.value)

----------------------------------------------------------------------------
(* Claims about the names of lowered timepoints (specification SpecEntity). *)

\* C23: two calls of get_timepoint whose timepoints differ in their base value
\* or whose labels differ (one of them possibly absent) yield different names;
\* the timepoints have the same delay and type, so the strings differ exactly
\* when their name parts do.
C23_NamesInjective ==
    (/\ inputs.op = "get_timepoints"
     /\ \/ inputs.args[1].value # inputs.args[3].value
        \/ inputs.args[2] # inputs.args[4])
    => result.value[1] # result.value[2]

----------------------------------------------------------------------------
(* htn.py: two threads inside HtnTemporalIntervalFactory._make, with no     *)
(* lock (specification SpecThreads).  A frame holds the locals of one call: *)
(* pc is the statement it stands before; an increment of the class          *)
(* attribute is a read of the counter into value followed by a write of     *)
(* value + 1, and another thread may run between the two.                   *)

Threads == {1, 2}

Frame(at, start_id, end_id, start, end, value, interleaved) ==
    [pc |-> at, start_id |-> start_id, end_id |-> end_id, start |-> start,
     end |-> end, value |-> value, interleaved |-> interleaved]

\* The thread has not called the factory yet.
NotCalled == Frame("idle", "", "", "", "", 0, FALSE)

\* Variant of the statements of _make without the first increment; C24 fails
\* under it.
HtnTemporalIntervalFactory_make_statement_once(frame, count) ==
    IF frame.pc = "start"
    THEN [frame |-> [frame EXCEPT !.pc = "end",
                                  !.start = "__" \o frame.start_id \o "__" \o ToString(count)],
          counter |-> count]
    ELSE IF frame.pc = "end"
    THEN [frame |-> [frame EXCEPT !.pc = "load_2",
                                  !.end = "__" \o frame.end_id \o "__" \o ToString(count)],
          counter |-> count]
    ELSE IF frame.pc = "load_2"
    THEN [frame |-> [frame EXCEPT !.pc = "store_2", !.value = count], counter |-> count]
    ELSE [frame |-> [frame EXCEPT !.pc = "return"], counter |-> frame.value + 1]

\* The statement of _make the frame stands before, run on the counter count:
\* the frame and the counter it leaves behind.
HtnTemporalIntervalFactory_make_statement(frame, count) ==
    IF frame.pc = "start"
    THEN [frame |-> [frame EXCEPT !.pc = "load_1",
                                  !.start = "__" \o frame.start_id \o "__" \o ToString(count)],
          counter |-> count]
    ELSE IF frame.pc = "load_1"
    THEN [frame |-> [frame EXCEPT !.pc = "store_1", !.value = count], counter |-> count]
    ELSE IF frame.pc = "store_1"
    THEN [frame |-> [frame EXCEPT !.pc = "end"], counter |-> frame.value + 1]
    ELSE IF frame.pc = "end"
    THEN [frame |-> [frame EXCEPT !.pc = "load_2",
                                  !.end = "__" \o frame.end_id \o "__" \o ToString(count)],
          counter |-> count]
    ELSE IF frame.pc = "load_2"
    THEN [frame |-> [frame EXCEPT !.pc = "store_2", !.value = count], counter |-> count]
    ELSE [frame |-> [frame EXCEPT !.pc = "return"], counter |-> frame.value + 1]

InitThreads ==
    /\ PipelineIdle
    /\ counter = 0
    /\ minted = <<>>
    /\ domain = NoDomain
    /\ inputs = NoCall
    /\ result = NoCall
    /\ frames = [t \in Threads |-> NotCalled]

\* A thread is between the first statement of _make and its return.
Inside(frame) == frame.pc \notin {"idle", "done"}

\* default, at_start, at_end and over_all: the call of _make.  interleaved
\* records that another thread is inside _make when this one enters.
ThreadCall(t) ==
    /\ frames[t].pc = "idle"
    /\ \E ids \in {<<"d", "d">>, <<"s", "s">>, <<"e", "e">>, <<"s", "e">>} :
          frames' = [frames EXCEPT ![t] =
                        Frame("start", ids[1], ids[2], "", "", 0,
                              \E u \in Threads \ {t} : Inside(frames[u]))]
    /\ UNCHANGED <<pipeline_vars, counter, minted, domain, inputs, result>>

ThreadStatement(t) ==
    /\ frames[t].pc \in {"start", "load_1", "store_1", "end", "load_2", "store_2"}
    /\ frames' = [frames EXCEPT ![t] =
                     HtnTemporalIntervalFactory_make_statement(frames[t], counter).frame]
    /\ counter' = HtnTemporalIntervalFactory_make_statement(frames[t], counter).counter
    /\ UNCHANGED <<pipeline_vars, minted, domain, inputs, result>>

ThreadReturn(t) ==
    /\ frames[t].pc = "return"
    /\ frames' = [frames EXCEPT ![t].pc = "done"]
    /\ minted' = Append(minted, HtnTemporalInterval(HtnTimepoint(frames[t].start),
                                                    HtnTimepoint(frames[t].end)))
    /\ UNCHANGED <<pipeline_vars, counter, domain, inputs, result>>

NextThreads ==
    \E t \in Threads :
        \/ ThreadCall(t)
        \/ ThreadStatement(t)
        \/ ThreadReturn(t)

SpecThreads == InitThreads /\ [][NextThreads]_vars

BothReturned == \A t \in Threads : frames[t].pc = "done"

MintedDistinct == \A i, j \in 1..Len(MintedIds) : i # j => MintedIds[i] # MintedIds[j]

----------------------------------------------------------------------------
(* Claims about the types forwarded to the builder (specification Spec).   *)

\* C25: in every reachable state, every add_type(name, parent) the builder
\* has received with a parent comes after an add_type call for that parent.
C25_ParentForwardedFirst ==
    \A i \in 1..Len(calls) :
        (calls[i].op = "add_type" /\ calls[i].args[2] # None) =>
            \E j \in 1..(i - 1) :
                calls[j].op = "add_type" /\ calls[j].args[1] = calls[i].args[2]

----------------------------------------------------------------------------
(* lcp_converter.py: the vocabulary of types, constants and variables      *)
(* (specification SpecTypes): a tree of types three levels deep.           *)

t_drone == HtnType("drone", t_robot)

TypeTreeInputs == {t_location, t_locatable, t_robot, t_drone}

TypedConstantInputs == {o_loc0, o_robot, HtnConstant("D", t_drone)}

TypedVariableInputs == {v_robot, v_to, HtnVariable("?d", t_drone)}

TypesApi ==
    /\ pc = "api"
    /\ Len(calls) < MaxTypeCalls
    /\ UNCHANGED <<pc, todo, htn_problem, entity_vars>>

TypesAddType == TypesApi /\ \E t \in TypeTreeInputs : Become(add_type(Enter, t))

TypesAddConstant == TypesApi /\ \E c \in TypedConstantInputs : Become(add_constant(Enter, c))

TypesAddVariable == TypesApi /\ \E v \in TypedVariableInputs : Become(add_variable(Enter, v))

NextTypes ==
    \/ TypesAddType
    \/ TypesAddConstant
    \/ TypesAddVariable

SpecTypes == Init /\ [][NextTypes]_vars

\* The types above t, up to the root.
RECURSIVE Ancestors(_)
Ancestors(t) ==
    IF HtnType_parent(t) = None THEN {}
    ELSE {HtnType_parent(t)} \cup Ancestors(HtnType_parent(t))

\* The add_type calls the builder received for the type t.
TypeCalls(t) ==
    {i \in 1..Len(calls) :
        /\ calls[i].op = "add_type"
        /\ calls[i].args[1] = Str(HtnType_name(t))
        /\ calls[i].args[2] = IF HtnType_parent(t) # None
                              THEN Str(HtnType_name(HtnType_parent(t)))
                              ELSE None}

\* C26: in every reachable state every ancestor of every registered type, and
\* the type of every registered constant and variable, is registered, and the
\* builder has received exactly one add_type call for each registered type
\* and none for any other.
C26_TypesClosed ==
    /\ \A t \in types : \A a \in Ancestors(t) : TypeRegistered(a)
    /\ \A c \in constants : TypeRegistered(c.tpe)
    /\ \A v \in variables : TypeRegistered(v.tpe)
    /\ \A t \in types : Cardinality(TypeCalls(t)) = 1
    /\ Cardinality(CallsOf(calls, {"add_type"})) = Cardinality(types)

\* The drone type was registered through a constant after its parent robot had
\* been registered on its own, and a variable brought in another type.
C26_Witness ==
    /\ TypeRegistered(t_drone)
    /\ TypeRegistered(t_location)
    /\ \E c \in constants : c.tpe = t_drone
    /\ \E v \in variables : v.tpe = t_location
    /\ \E i \in TypeCalls(t_robot) : \E j \in TypeCalls(t_drone) : i < j

----------------------------------------------------------------------------
(* Claims about the growth of a domain (specification SpecDomain).         *)

DomainMethodInputs == {m_go, m_go_fuel}

\* Every set of the language and of the domain A is within that of B.
DomainWithin(A, B) ==
    /\ A.L.Vars \subseteq B.L.Vars
    /\ A.L.Csts \subseteq B.L.Csts
    /\ A.L.StVars \subseteq B.L.StVars
    /\ A.L.Prims \subseteq B.L.Prims
    /\ A.L.Comps \subseteq B.L.Comps
    /\ A.L.Labs \subseteq B.L.Labs
    /\ A.Tp \subseteq B.Tp
    /\ A.Tc \subseteq B.Tc
    /\ A.M \subseteq B.M

\* C27: in every reachable domain, after add_method(m) the method is in M,
\* every primitive subtask of its network in Tp, every other subtask in Tc,
\* every label of the network in L.Labs and the symbol of its task in L.Comps,
\* and nothing the domain held is removed.
C27_MethodClosed ==
    \A m \in DomainMethodInputs :
        LET D == HtnDomain_add_method(domain, m)
            label_mapping == m.task_network.label_mapping
        IN  /\ Methods_contains(D.M, m)
            /\ \A i \in 1..Len(label_mapping) :
                  /\ label_mapping[i].label \in D.L.Labs
                  /\ IF label_mapping[i].task.cls = "HtnPrimitiveTask"
                     THEN Tasks_contains(D.Tp, label_mapping[i].task)
                     ELSE Tasks_contains(D.Tc, label_mapping[i].task)
            /\ Symbols_contains(D.L.Comps, m.task.symbol)
            /\ DomainWithin(domain, D)

\* Both methods were added to a domain that already held a task: a primitive
\* and a compound subtask arrived with them.
C27_Witness ==
    /\ \A m \in DomainMethodInputs : Methods_contains(domain.M, m)
    /\ Tasks_contains(domain.Tp, p_move)
    /\ Tasks_contains(domain.Tp, p_leave)
    /\ Tasks_contains(domain.Tc, c_go_step)
    /\ {l_0, l_1} \subseteq domain.L.Labs

\* The Python set R is the union of A and B: it keeps A, holds every element
\* of B and nothing else.
TypedObjectsUnion(R, A, B) ==
    A \subseteq R /\ R \subseteq A \cup B /\ \A x \in B : TypedObjects_contains(R, x)

SymbolsUnion(R, A, B) ==
    A \subseteq R /\ R \subseteq A \cup B /\ \A x \in B : Symbols_contains(R, x)

TasksUnion(R, A, B) ==
    A \subseteq R /\ R \subseteq A \cup B /\ \A x \in B : Tasks_contains(R, x)

MethodsUnion(R, A, B) ==
    A \subseteq R /\ R \subseteq A \cup B /\ \A x \in B : Methods_contains(R, x)

\* C28: every step of add_typed_object, add_task, add_method and merge leaves
\* each of Vars, Csts, StVars, Prims, Comps, Labs, Tp, Tc and M a superset of
\* what it was, and in every reachable domain merge(other) makes each set of
\* the receiver the union of its own and other's and leaves other as it was.
C28_Monotone ==
    /\ [][DomainWithin(domain, domain')]_vars
    /\ [](\A other \in OtherDomains \cup {domain} :
            LET r == HtnDomain_merge(domain, other) IN
            /\ TypedObjectsUnion(r.self.L.Vars, domain.L.Vars, other.L.Vars)
            /\ TypedObjectsUnion(r.self.L.Csts, domain.L.Csts, other.L.Csts)
            /\ SymbolsUnion(r.self.L.StVars, domain.L.StVars, other.L.StVars)
            /\ SymbolsUnion(r.self.L.Prims, domain.L.Prims, other.L.Prims)
            /\ SymbolsUnion(r.self.L.Comps, domain.L.Comps, other.L.Comps)
            /\ r.self.L.Labs = domain.L.Labs \cup other.L.Labs
            /\ TasksUnion(r.self.Tp, domain.Tp, other.Tp)
            /\ TasksUnion(r.self.Tc, domain.Tc, other.Tc)
            /\ MethodsUnion(r.self.M, domain.M, other.M)
            /\ r.domain = other)

\* A domain that held a task, a method and a variable of its own was merged
\* with the two others.
C28_Witness ==
    /\ o_loc1 \in domain.L.Csts
    /\ v_to \in domain.L.Vars
    /\ Tasks_contains(domain.Tp, p_leave)
    /\ Tasks_contains(domain.Tc, c_go)
    /\ Methods_contains(domain.M, m_go)
    /\ Methods_contains(domain.M, m_go_fuel)

----------------------------------------------------------------------------
(* Claims about the symmetry of task equality (specification SpecEntity).  *)

\* C29: for two tasks a and b of the same kind, parameter lists that repeat a
\* parameter included, a == b holds exactly when b == a.
C29_TaskEqSymmetric ==
    inputs.op = "task_eq" =>
        result.value = Some(Task_eq(inputs.args[2], inputs.args[1]))

----------------------------------------------------------------------------
(* Claims about the parameters of a primitive task (specification          *)
(* SpecEntity).                                                            *)

\* The parameters of the state variables of the conditions and effects.
StateVariableParams(task) ==
    UNION {Range(sv.params) : sv \in Range(HtnPrimitiveTask_state_variables(task))}

\* C30: all_params of a primitive task begins with its params in their order;
\* every later entry is a parameter of a state variable of its conditions or
\* effects that no earlier entry equals; every such parameter is in the list;
\* and get_signature has one entry more than all_params, the symbol name
\* first.
C30_AllParams ==
    inputs.op = "all_params" =>
        LET task == inputs.args[1]
            all_params == result.value[1]
            signature == result.value[2]
            n == Len(task.params)
        IN  /\ Len(all_params) >= n
            /\ SubSeq(all_params, 1, n) = task.params
            /\ \A i \in (n + 1)..Len(all_params) :
                  /\ all_params[i] \in StateVariableParams(task)
                  /\ \A j \in 1..(i - 1) : ~TypedObject_eq(all_params[i], all_params[j])
            /\ \A x \in StateVariableParams(task) :
                  \E i \in 1..Len(all_params) : TypedObject_eq(all_params[i], x)
            /\ signature.raised = "none"
            /\ Len(signature.value) = 1 + Len(all_params)
            /\ signature.value[1] = task.symbol.name

\* all_params of the task whose state variables share the robot: the robot
\* follows the explicit parameter and is listed once.
C30_Witness ==
    /\ inputs.op = "all_params"
    /\ inputs.args[1] = p_check
    /\ Len(inputs.args[2]) = 2
    /\ result.value[1] = <<v_to, v_robot>>
    /\ Len(result.value[2].value) = 3

====
